---- MODULE Spec2Model ----
(***************************************************************************)
(* sqlx-paginated: the query construction engine (QueryBuilder), the       *)
(* pagination orchestrator (PaginatedQueryBuilder::fetch_paginated), the   *)
(* parameter builder (QueryParamsBuilder), and fetch_paginated calls that  *)
(* share one connection pool.                                              *)
(*                                                                         *)
(* Text is modelled as it is built.  A Rust String that the code inspects  *)
(* character by character (identifiers, the search term, bound values) is  *)
(* a sequence of one-character strings.  SQL text is the sequence of the   *)
(* pieces the code's format! calls put together: the format string's       *)
(* literal parts, a placeholder, a cast suffix, or the characters of a     *)
(* quoted identifier.  Two SQL texts are byte-identical when their piece   *)
(* sequences are equal.                                                    *)
(***************************************************************************)
EXTENDS Integers, Sequences, FiniteSets, TLC

VARIABLES
    qb,        \* the QueryBuilder under construction (query_builder.rs:25-42)
    last,      \* the builder call that produced qb: method, inputs, builder before
    work,      \* builder calls made so far, a call over a list counting once per element
    fp,        \* one fetch_paginated call: the PaginatedQueryBuilder and its progress
    pb,        \* the QueryParamsBuilder under construction, and the last with_pagination input
    calls      \* the fetch_paginated calls running on one pool: progress, connections held

vars == <<qb, last, work, fp, pb, calls>>

----------------------------------------------------------------------------
(* Bounds of the model *)

MaxWork == 2     \* builder calls on one builder, a list of n filters or columns counting n

----------------------------------------------------------------------------
(* Strings *)

RECURSIVE JoinWith(_, _)
\* Vec<String>::join(sep)
JoinWith(seqs, sep) ==
    IF seqs = <<>> THEN <<>>
    ELSE IF Len(seqs) = 1 THEN seqs[1]
    ELSE seqs[1] \o sep \o JoinWith(Tail(seqs), sep)

RECURSIVE Replace(_, _, _)
\* str::replace(from, to) for a one-character pattern
Replace(s, from, to) ==
    IF s = <<>> THEN <<>>
    ELSE (IF Head(s) = from THEN to ELSE <<Head(s)>>) \o Replace(Tail(s), from, to)

IsWhitespace(c) == c \in {" ", "\t", "\n", "\r"}

RECURSIVE TrimStart(_)
TrimStart(s) ==
    IF s # <<>> /\ IsWhitespace(Head(s)) THEN TrimStart(Tail(s)) ELSE s

RECURSIVE TrimEnd(_)
TrimEnd(s) ==
    IF s # <<>> /\ IsWhitespace(s[Len(s)]) THEN TrimEnd(SubSeq(s, 1, Len(s) - 1)) ELSE s

\* str::trim
Trim(s) == TrimEnd(TrimStart(s))

UpperChars == <<"A","B","C","D","E","F","G","H","I","J","K","L","M",
                "N","O","P","Q","R","S","T","U","V","W","X","Y","Z">>
LowerChars == <<"a","b","c","d","e","f","g","h","i","j","k","l","m",
                "n","o","p","q","r","s","t","u","v","w","x","y","z">>

ToLowerChar(c) ==
    IF \E i \in 1..26 : UpperChars[i] = c
    THEN LowerChars[CHOOSE i \in 1..26 : UpperChars[i] = c]
    ELSE c

\* str::to_lowercase
ToLowercase(s) == [i \in 1..Len(s) |-> ToLowerChar(s[i])]

\* str::starts_with
StartsWith(s, p) == Len(p) <= Len(s) /\ SubSeq(s, 1, Len(p)) = p

DigitChars == <<"0","1","2","3","4","5","6","7","8","9">>

RECURSIVE NatToString(_)
NatToString(n) ==
    IF n < 10 THEN <<DigitChars[n + 1]>>
    ELSE NatToString(n \div 10) \o <<DigitChars[(n % 10) + 1]>>

\* i64::to_string
IntToString(i) == IF i < 0 THEN <<"-">> \o NatToString(-i) ELSE NatToString(i)

\* bool::to_string
BoolToString(b) == IF b THEN <<"t","r","u","e">> ELSE <<"f","a","l","s","e">>

----------------------------------------------------------------------------
(* Field types and the model struct *)

\* get_struct_field_meta: the type of one field from its serialised default
InferFieldType(json) ==
    CASE json.kind = "number" ->
            IF json.is_f64 /\ json.fract_nonzero THEN "Float" ELSE "Int"
      [] json.kind = "bool" -> "Bool"
      [] json.kind = "string" -> IF json.parses_as_uuid THEN "Uuid" ELSE "String"
      [] OTHER -> "Unknown"

JsonNumber(f64, fract) ==
    [kind |-> "number", is_f64 |-> f64, fract_nonzero |-> fract, parses_as_uuid |-> FALSE]
JsonBool == [kind |-> "bool", is_f64 |-> FALSE, fract_nonzero |-> FALSE, parses_as_uuid |-> FALSE]
JsonString(uuid) ==
    [kind |-> "string", is_f64 |-> FALSE, fract_nonzero |-> FALSE, parses_as_uuid |-> uuid]
JsonNull == [kind |-> "null", is_f64 |-> FALSE, fract_nonzero |-> FALSE, parses_as_uuid |-> FALSE]

ColId == <<"i","d">>
ColName == <<"n","a","m","e">>
ColActive == <<"i","s","_","a","c","t","i","v","e">>
ColOpt == <<"o","p","t">>
ColOid == <<"o","i","d">>

\* serde_json::to_value(T::default()) of the model struct T: an i64, a String, a
\* bool, an Option (null), and a field that carries a Postgres system column's name
ModelDefaultJson ==
    (ColId :> JsonNumber(FALSE, FALSE)) @@ (ColName :> JsonString(FALSE))
    @@ (ColActive :> JsonBool) @@ (ColOpt :> JsonNull)
    @@ (ColOid :> JsonNumber(FALSE, FALSE))

GetStructFieldMeta == [c \in DOMAIN ModelDefaultJson |-> InferFieldType(ModelDefaultJson[c])]

----------------------------------------------------------------------------
(* Dialects *)

Dialects == {"postgres", "sqlite"}

\* format!("\"{}\"", ident.replace('"', "\"\""))
QuoteIdentifier(dialect, ident) == <<"\"">> \o Replace(ident, "\"", <<"\"", "\"">>) \o <<"\"">>

Placeholder(dialect, position) ==
    IF dialect = "postgres" THEN "$" \o ToString(position) ELSE "?"

\* the cast suffix of the Postgres dialect, as pieces of SQL text ("" is no piece)
PostgresTypeCasting(field_type) ==
    CASE field_type = "Int" -> <<"::bigint">>
      [] field_type = "Float" -> <<"::float8">>
      [] field_type = "Bool" -> <<"::boolean">>
      [] field_type = "Uuid" -> <<"::uuid">>
      [] field_type = "DateTime" -> <<"::timestamptz">>
      [] field_type = "Date" -> <<"::date">>
      [] field_type = "Time" -> <<"::time">>
      [] OTHER -> <<>>

\* every arm returns DEFAULT_EMPTY_VALUE
SqliteTypeCasting(field_type) == <<>>

TypeCast(dialect, field_type) ==
    IF dialect = "postgres" THEN PostgresTypeCasting(field_type)
    ELSE SqliteTypeCasting(field_type)

----------------------------------------------------------------------------
(* Column protection *)

COLUMN_PROTECTION_BLOCKED_POSTGRES ==
    { <<"p","g","_">>,
      <<"i","n","f","o","r","m","a","t","i","o","n","_","s","c","h","e","m","a",".">>,
      <<"o","i","d">>, <<"t","a","b","l","e","o","i","d">>,
      <<"x","m","i","n">>, <<"x","m","a","x">>, <<"c","m","i","n">>, <<"c","m","a","x">>,
      <<"c","t","i","d">>,
      <<"p","g","_","c","a","t","a","l","o","g">>, <<"p","g","_","t","o","a","s","t">>,
      <<"p","g","_","t","e","m","p">>, <<"p","g","_","i","n","t","e","r","n","a","l">> }

COLUMN_PROTECTION_BLOCKED_SQLITE ==
    { <<"s","q","l","i","t","e","_","m","a","s","t","e","r">>,
      <<"s","q","l","i","t","e","_","s","c","h","e","m","a">>,
      <<"s","q","l","i","t","e","_","t","e","m","p","_","m","a","s","t","e","r">>,
      <<"s","q","l","i","t","e","_","s","e","q","u","e","n","c","e">>,
      <<"s","q","l","i","t","e","_">>,
      <<"r","o","w","i","d">>, <<"_","r","o","w","i","d","_">> }

BlockedPostgresLowercase == {ToLowercase(b) : b \in COLUMN_PROTECTION_BLOCKED_POSTGRES}
BlockedSqliteLowercase == {ToLowercase(b) : b \in COLUMN_PROTECTION_BLOCKED_SQLITE}

\* ColumnProtection::is_safe: no blocked entry is a case-insensitive prefix of the column
ProtectionIsSafe(dialect, column) ==
    LET lowercase == ToLowercase(column)
        blocked_lowercase ==
            IF dialect = "postgres" THEN BlockedPostgresLowercase ELSE BlockedSqliteLowercase
    IN  ~ \E blocked \in blocked_lowercase : StartsWith(lowercase, blocked)

----------------------------------------------------------------------------
(* Option, maps *)

Some(x) == [some |-> TRUE, value |-> x]
None == [some |-> FALSE, value |-> <<>>]

EmptyMap == [k \in {} |-> <<>>]

\* HashMap::insert
MapInsert(map, key, value) == (key :> value) @@ map

----------------------------------------------------------------------------
(* Filters: models.rs *)

\* FilterValue.  A scalar carries its payload in the field of its variant: text
\* (String, DateTime, Date, Time, and a Uuid as its hyphenated text), int (Int),
\* bool (Bool), and for a Float its integral part in int and its first decimal
\* in frac.  An Array carries its elements in arr.
FilterValue(variant, text, int, frac, bool, arr) ==
    [variant |-> variant, text |-> text, int |-> int, frac |-> frac, bool |-> bool, arr |-> arr]

VString(s) == FilterValue("String", s, 0, 0, FALSE, <<>>)
VUuid(s) == FilterValue("Uuid", s, 0, 0, FALSE, <<>>)
VInt(i) == FilterValue("Int", <<>>, i, 0, FALSE, <<>>)
VFloat(i, d) == FilterValue("Float", <<>>, i, d, FALSE, <<>>)
VBool(b) == FilterValue("Bool", <<>>, 0, 0, b, <<>>)
VDateTime(s) == FilterValue("DateTime", s, 0, 0, FALSE, <<>>)
VDate(s) == FilterValue("Date", s, 0, 0, FALSE, <<>>)
VTime(s) == FilterValue("Time", s, 0, 0, FALSE, <<>>)
VArray(a) == FilterValue("Array", <<>>, 0, 0, FALSE, a)
VNull == FilterValue("Null", <<>>, 0, 0, FALSE, <<>>)

\* f64::to_string of a value with at most one decimal: 10.0 prints as 10
FloatToString(i, d) ==
    IF d = 0 THEN IntToString(i) ELSE IntToString(i) \o <<".">> \o NatToString(d)

RECURSIVE ToBindableString(_)
ToBindableString(v) ==
    CASE v.variant = "String" -> v.text
      [] v.variant = "Int" -> IntToString(v.int)
      [] v.variant = "Float" -> FloatToString(v.int, v.frac)
      [] v.variant = "Bool" -> BoolToString(v.bool)
      [] v.variant = "Uuid" -> v.text
      [] v.variant = "DateTime" -> v.text
      [] v.variant = "Date" -> v.text
      [] v.variant = "Time" -> v.text
      [] v.variant = "Array" ->
            IF v.arr = <<>> THEN <<>> ELSE ToBindableString(v.arr[1])
      [] OTHER -> <<>>

ToBindableStrings(v) ==
    IF v.variant = "Array" THEN [i \in 1..Len(v.arr) |-> ToBindableString(v.arr[i])]
    ELSE <<ToBindableString(v)>>

RECURSIVE ToFieldTypeOfLastElement(_)
\* a to_field_type that takes the type of an array from its last element
ToFieldTypeOfLastElement(v) ==
    CASE v.variant \in {"String", "Int", "Float", "Bool", "Uuid", "DateTime", "Date", "Time"} ->
            v.variant
      [] v.variant = "Array" ->
            IF v.arr = <<>> THEN "Unknown" ELSE ToFieldTypeOfLastElement(v.arr[Len(v.arr)])
      [] OTHER -> "Unknown"

RECURSIVE ToFieldType(_)
ToFieldType(v) ==
    CASE v.variant \in {"String", "Int", "Float", "Bool", "Uuid", "DateTime", "Date", "Time"} ->
            v.variant
      [] v.variant = "Array" ->
            IF v.arr = <<>> THEN "Unknown" ELSE ToFieldType(v.arr[1])
      [] OTHER -> "Unknown"

Filter(field, operator, value) == [field |-> field, operator |-> operator, value |-> value]

----------------------------------------------------------------------------
(* QueryBuilder: builders/query_builders/query_builder.rs *)

\* QueryBuilder::<T, DB>::new.  cond_src is a history field beside conditions:
\* for each condition, the call and the filter index that emitted it.
NewQueryBuilder(dialect) ==
    [ conditions |-> <<>>,
      arguments |-> <<>>,
      mappers |-> EmptyMap,
      valid_columns |-> DOMAIN GetStructFieldMeta,
      field_meta |-> GetStructFieldMeta,
      protection_enabled |-> TRUE,
      column_validation_enabled |-> TRUE,
      dialect |-> dialect,
      computed_properties |-> EmptyMap,
      active_joins |-> <<>>,
      table_prefix |-> None,
      cond_src |-> <<>> ]

ComputedProperty(expression, joins, field_type) ==
    [expression |-> expression, joins |-> joins, field_type |-> field_type]

\* an is_column_safe whose denylist check runs only while validation is enabled
IsColumnSafeDenylistWithValidation(b, column) ==
    IF column \in DOMAIN b.computed_properties THEN TRUE
    ELSE IF ~ b.column_validation_enabled THEN TRUE
    ELSE column \in b.valid_columns
             /\ (b.protection_enabled => ProtectionIsSafe(b.dialect, column))

IsColumnSafe(b, column) ==
    IF column \in DOMAIN b.computed_properties THEN TRUE
    ELSE LET column_exists ==
                 IF b.column_validation_enabled THEN column \in b.valid_columns ELSE TRUE
         IN  IF ~ b.protection_enabled THEN column_exists
             ELSE column_exists /\ ProtectionIsSafe(b.dialect, column)

RECURSIVE PushJoins(_, _)
PushJoins(active, joins) ==
    IF joins = <<>> THEN active
    ELSE PushJoins(
             IF \E i \in 1..Len(active) : active[i] = Head(joins)
             THEN active ELSE Append(active, Head(joins)),
             Tail(joins))

ActivateJoins(b, property) ==
    [b EXCEPT !.active_joins = PushJoins(b.active_joins, property.joins)]

FormatColumn(b, column) ==
    IF b.table_prefix.some
    THEN QuoteIdentifier(b.dialect, b.table_prefix.value) \o <<".">>
             \o QuoteIdentifier(b.dialect, column)
    ELSE QuoteIdentifier(b.dialect, column)

WithTablePrefix(b, prefix) == [b EXCEPT !.table_prefix = Some(prefix)]

\* a with_computed_property that activates the joins at registration
WithComputedPropertyJoiningEagerly(b, name, property) ==
    [b EXCEPT !.computed_properties = MapInsert(b.computed_properties, name, property),
              !.active_joins = PushJoins(b.active_joins, property.joins)]

WithComputedProperty(b, name, property) ==
    [b EXCEPT !.computed_properties = MapInsert(b.computed_properties, name, property)]

MapColumn(b, column, mapper) == [b EXCEPT !.mappers = MapInsert(b.mappers, column, mapper)]

\* A mapper is the caller's closure Fn(&str, &str) -> (String, Option<String>).
\* Two closures stand for it: one that wraps the column in a function call and
\* leaves the placeholder to the builder, one that also writes its own placeholder.
CallMapper(mapper, column, search) ==
    [ table_column |-> <<"unaccent(">> \o column \o <<")">>,
      placeholder |-> IF mapper = "wrap_placeholder" THEN Some("$1") ELSE None ]

\* the closure of filter_map in with_search: one column's LIKE term, or None
SearchColumnCondition(b, column, search, next_argument) ==
    IF column \in DOMAIN b.computed_properties
    THEN LET prop == b.computed_properties[column]
             placeholder == Placeholder(b.dialect, next_argument)
         IN  IF prop.field_type = "String"
             THEN Some(<<"LOWER(">> \o prop.expression \o <<") LIKE LOWER(", placeholder, ")">>)
             ELSE Some(<<"(">> \o prop.expression \o <<")::text LIKE ", placeholder>>)
    ELSE LET has_mapper == column \in DOMAIN b.mappers IN
         IF ~ has_mapper /\ ~ IsColumnSafe(b, column) THEN None
         ELSE LET field_type ==
                      IF column \in DOMAIN b.field_meta THEN b.field_meta[column] ELSE "Unknown"
                  mapped == IF has_mapper THEN CallMapper(b.mappers[column], column, search)
                            ELSE [table_column |-> <<>>, placeholder |-> None]
                  table_column ==
                      IF has_mapper THEN mapped.table_column ELSE FormatColumn(b, column)
                  placeholder ==
                      IF has_mapper /\ mapped.placeholder.some THEN mapped.placeholder.value
                      ELSE Placeholder(b.dialect, next_argument)
              IN  IF field_type = "String"
                  THEN Some(<<"LOWER(">> \o table_column \o <<") LIKE LOWER(", placeholder, ")">>)
                  ELSE Some(table_column \o <<"::text LIKE ", placeholder>>)

RECURSIVE ActivateAll(_, _, _)
\* joins_to_activate: the computed properties among the search columns, in order
ActivateAll(b, columns, i) ==
    IF i > Len(columns) THEN b
    ELSE ActivateAll(
             IF columns[i] \in DOMAIN b.computed_properties
             THEN ActivateJoins(b, b.computed_properties[columns[i]]) ELSE b,
             columns, i + 1)

RECURSIVE SomeValues(_)
\* filter_map(...).collect(): the Some values, in order
SomeValues(options) ==
    IF options = <<>> THEN <<>>
    ELSE (IF Head(options).some THEN <<Head(options).value>> ELSE <<>>)
             \o SomeValues(Tail(options))

SearchSrc == [kind |-> "search", index |-> 0]

\* a with_search that writes the term into the condition instead of binding it
WithSearchInlined(b, params) ==
    IF params.search.search.some /\ Trim(params.search.search.value) # <<>>
    THEN [b EXCEPT
             !.conditions =
                 Append(@, <<"(LOWER(name) LIKE LOWER('%">> \o params.search.search.value
                               \o <<"%'))">>),
             !.cond_src = Append(@, SearchSrc)]
    ELSE b

WithSearch(b, params) ==
    IF /\ params.search.search.some
       /\ params.search.search_columns.some
       /\ params.search.search_columns.value # <<>>
       /\ Trim(params.search.search.value) # <<>>
    THEN LET search == params.search.search.value
             columns == params.search.search_columns.value
             pattern == <<"%">> \o search \o <<"%">>
             next_argument == Len(b.arguments) + 1
             search_conditions ==
                 SomeValues([i \in 1..Len(columns) |->
                                SearchColumnCondition(b, columns[i], search, next_argument)])
             joined == ActivateAll(b, columns, 1)
         IN  IF search_conditions # <<>>
             THEN [joined EXCEPT
                      !.conditions =
                          Append(@, <<"(">> \o JoinWith(search_conditions, <<" OR ">>) \o <<")">>),
                      !.arguments = Append(@, pattern),
                      !.cond_src = Append(@, SearchSrc)]
             ELSE joined
    ELSE b

FilterSrc(index) == [kind |-> "filter", index |-> index]

\* the operator text of the comparison arms of with_filters
ComparisonSql(operator) ==
    CASE operator = "Eq" -> " = "
      [] operator = "Ne" -> " != "
      [] operator = "Gt" -> " > "
      [] operator = "Lt" -> " < "
      [] operator = "Gte" -> " >= "
      [] operator = "Lte" -> " <= "
      [] operator = "Contains" -> " @> "

\* a comparison without the cast suffix
ComparisonConditionWithoutCast(table_column, operator, placeholder, type_cast) ==
    table_column \o <<ComparisonSql(operator), placeholder>>

\* format!("{} = {}{}", table_column, placeholder, type_cast) and its siblings
ComparisonCondition(table_column, operator, placeholder, type_cast) ==
    table_column \o <<ComparisonSql(operator), placeholder>> \o type_cast

\* a BETWEEN whose bounds are in the opposite order
BetweenConditionSwapped(table_column, placeholder1, placeholder2, type_cast) ==
    table_column \o <<" BETWEEN ", placeholder2>> \o type_cast
        \o <<" AND ", placeholder1>> \o type_cast

\* format!("{} BETWEEN {}{} AND {}{}", table_column, placeholder1, type_cast,
\*         placeholder2, type_cast)
BetweenCondition(table_column, placeholder1, placeholder2, type_cast) ==
    table_column \o <<" BETWEEN ", placeholder1>> \o type_cast
        \o <<" AND ", placeholder2>> \o type_cast

\* a pattern match whose placeholder receives the cast that the column needs
PatternConditionCastingPlaceholder(table_column, keyword, placeholder, effective_field_type) ==
    IF effective_field_type # "String" /\ effective_field_type # "Unknown"
    THEN table_column \o <<" " \o keyword \o " ", placeholder, "::text">>
    ELSE table_column \o <<" " \o keyword \o " ", placeholder>>

\* the Like and ILike arms: format!("{}::text LIKE {}", table_column, placeholder)
\* for a type that is neither String nor Unknown, format!("{} LIKE {}", ...) otherwise
PatternCondition(table_column, keyword, placeholder, effective_field_type) ==
    IF effective_field_type # "String" /\ effective_field_type # "Unknown"
    THEN table_column \o <<"::text " \o keyword \o " ", placeholder>>
    ELSE table_column \o <<" " \o keyword \o " ", placeholder>>

\* a null check that compares the column with a placeholder
NullCheckConditionWithPlaceholder(table_column, keyword) ==
    table_column \o <<" IS ", Placeholder("sqlite", 1)>>

\* format!("{} IS NULL", table_column) and format!("{} IS NOT NULL", table_column)
NullCheckCondition(table_column, keyword) ==
    table_column \o <<" " \o keyword>>

RECURSIVE BindEach(_, _, _, _)
\* the closure of map in the In and NotIn arms: binds each value in turn and
\* yields its placeholder with the cast; returns the arguments and the pieces
BindEach(dialect, arguments, values, type_cast) ==
    IF values = <<>> THEN [arguments |-> arguments, placeholders |-> <<>>]
    ELSE LET placeholder == Placeholder(dialect, Len(arguments) + 1)
             rest == BindEach(dialect, Append(arguments, Head(values)), Tail(values), type_cast)
         IN  [ arguments |-> rest.arguments,
               placeholders |-> <<(<<placeholder>> \o type_cast)>> \o rest.placeholders ]

\* one iteration of the loop of with_filters, for the filter at position index
ApplyFilter(b0, filter, index) ==
    LET field == filter.field
        is_computed == field \in DOMAIN b0.computed_properties
        b == IF is_computed THEN ActivateJoins(b0, b0.computed_properties[field]) ELSE b0
    IN
    IF ~ is_computed /\ ~ IsColumnSafe(b0, field) THEN b0
    ELSE
    LET table_column ==
            IF is_computed THEN b0.computed_properties[field].expression
            ELSE FormatColumn(b0, field)
        field_type ==
            IF is_computed THEN b0.computed_properties[field].field_type
            ELSE IF field \in DOMAIN b0.field_meta THEN b0.field_meta[field] ELSE "Unknown"
        effective_field_type ==
            IF field_type = "Unknown" THEN ToFieldType(filter.value) ELSE field_type
        type_cast == TypeCast(b.dialect, effective_field_type)
        op == filter.operator
        placeholder == Placeholder(b.dialect, Len(b.arguments) + 1)
        value == ToBindableString(filter.value)
        values == ToBindableStrings(filter.value)
        Emit(condition, arguments) ==
            [b EXCEPT !.conditions = Append(@, condition),
                      !.arguments = arguments,
                      !.cond_src = Append(@, FilterSrc(index))]
    IN
    CASE op \in {"Eq", "Ne", "Gt", "Lt", "Gte", "Lte", "Contains"} ->
            Emit(ComparisonCondition(table_column, op, placeholder, type_cast),
                 Append(b.arguments, value))
      [] op = "Like" ->
            Emit(PatternCondition(table_column, "LIKE", placeholder, effective_field_type),
                 Append(b.arguments, value))
      [] op = "ILike" ->
            Emit(PatternCondition(table_column, "ILIKE", placeholder, effective_field_type),
                 Append(b.arguments, value))
      [] op = "In" ->
            LET bound == BindEach(b.dialect, b.arguments, values, type_cast)
            IN  Emit(table_column \o <<" IN (">> \o JoinWith(bound.placeholders, <<", ">>)
                         \o <<")">>,
                     bound.arguments)
      [] op = "NotIn" ->
            LET bound == BindEach(b.dialect, b.arguments, values, type_cast)
            IN  Emit(table_column \o <<" NOT IN (">> \o JoinWith(bound.placeholders, <<", ">>)
                         \o <<")">>,
                     bound.arguments)
      [] op = "IsNull" ->
            Emit(NullCheckCondition(table_column, "IS NULL"), b.arguments)
      [] op = "IsNotNull" ->
            Emit(NullCheckCondition(table_column, "IS NOT NULL"), b.arguments)
      [] op = "Between" ->
            IF Len(values) >= 2
            THEN LET placeholder1 == Placeholder(b.dialect, Len(b.arguments) + 1)
                     placeholder2 == Placeholder(b.dialect, Len(b.arguments) + 2)
                 IN  Emit(BetweenCondition(table_column, placeholder1, placeholder2, type_cast),
                          b.arguments \o <<values[1], values[2]>>)
            ELSE b

RECURSIVE ApplyFilters(_, _, _)
ApplyFilters(b, filters, index) ==
    IF index > Len(filters) THEN b
    ELSE ApplyFilters(ApplyFilter(b, filters[index], index), filters, index + 1)

WithFilters(b, params) == ApplyFilters(b, params.filters, 1)

ConditionSrc == [kind |-> "condition", index |-> 0]

\* a with_condition whose placeholder is numbered by the arguments bound so far
WithConditionOffByOne(b, column, condition, value) ==
    IF IsColumnSafe(b, column)
    THEN [b EXCEPT
             !.conditions =
                 Append(@, FormatColumn(b, column)
                               \o <<" ", condition, " ", Placeholder(b.dialect, Len(b.arguments))>>),
             !.arguments = Append(@, value),
             !.cond_src = Append(@, ConditionSrc)]
    ELSE b

WithCondition(b, column, condition, value) ==
    IF IsColumnSafe(b, column)
    THEN [b EXCEPT
             !.conditions =
                 Append(@, FormatColumn(b, column)
                               \o <<" ", condition, " ", Placeholder(b.dialect, Len(b.arguments) + 1)>>),
             !.arguments = Append(@, value),
             !.cond_src = Append(@, ConditionSrc)]
    ELSE b

\* a disable_protection that switches column validation off as well
DisableProtectionAndValidation(b) ==
    [b EXCEPT !.protection_enabled = FALSE, !.column_validation_enabled = FALSE]

DisableProtection(b) == [b EXCEPT !.protection_enabled = FALSE]
EnableProtection(b) == [b EXCEPT !.protection_enabled = TRUE]
DisableColumnValidation(b) == [b EXCEPT !.column_validation_enabled = FALSE]
EnableColumnValidation(b) == [b EXCEPT !.column_validation_enabled = TRUE]

\* QueryBuilder::build
Build(b) == [conditions |-> b.conditions, arguments |-> b.arguments, joins |-> b.active_joins]

----------------------------------------------------------------------------
(* QueryParams: models.rs, internal/models_internal.rs *)

DEFAULT_PAGE == 1
DEFAULT_MIN_PAGE_SIZE == 10

ColCreatedAt == <<"c","r","e","a","t","e","d","_","a","t">>
ColDescription == <<"d","e","s","c","r","i","p","t","i","o","n">>

\* default_search_columns
DefaultSearchColumns == Some(<<ColName, ColDescription>>)

\* QueryParams::default
DefaultQueryParams ==
    [ pagination |-> [page |-> DEFAULT_PAGE, page_size |-> DEFAULT_MIN_PAGE_SIZE],
      sort |-> [sort_direction |-> "Descending", sort_column |-> ColCreatedAt],
      search |-> [search |-> None, search_columns |-> DefaultSearchColumns],
      filters |-> <<>> ]

----------------------------------------------------------------------------
(* The inputs of the builder calls *)

ColZz == <<"z","z">>
ColPgX == <<"P","G","_","x">>
ColRowid == <<"r","o","w","i","d">>
ColCp == <<"c","p">>

SeqsUpTo(S, n) == UNION {[1..k -> S] : k \in 0..n}

\* search terms: empty, whitespace only, and two that are not blank
TermEmpty == <<>>
TermBlank == <<" ", "\t">>
TermA == <<"a">>
TermB == <<"b", " ", "c">>

SearchColumnInputs == {ColName, ColId, ColOid, ColZz, ColCp}

\* the search part of a QueryParams, over at most n columns
SearchInputs(n) ==
    { [search |-> Some(TermA), search_columns |-> Some(cols)] :
          cols \in SeqsUpTo(SearchColumnInputs, n) }
    \cup { [search |-> t, search_columns |-> c] :
          t \in {None, Some(TermEmpty), Some(TermBlank)}, c \in {Some(<<ColName>>)} }
    \cup { [search |-> Some(TermA), search_columns |-> None] }

TextX == <<"x">>
TextY == <<"%", "y">>

FilterInputs ==
    { Filter(ColId, op, VInt(7)) : op \in {"Eq", "Ne", "Gt", "Lt", "Gte", "Lte"} }
    \cup { Filter(f, "Eq", VString(TextX)) : f \in {ColName, ColOid, ColZz, ColCp, ColRowid} }
    \cup { Filter(ColOpt, "Gt", v) : v \in {VFloat(9, 5), VNull, VArray(<<VBool(TRUE), VInt(3)>>)} }
    \cup { Filter(ColActive, "Lte", VArray(<<>>)),
           Filter(ColId, "In", VArray(<<VInt(1), VInt(2)>>)),
           Filter(ColId, "Between", VArray(<<VInt(1), VInt(2)>>)),
           Filter(ColId, "Between", VArray(<<VInt(1)>>)),
           Filter(ColName, "IsNull", VNull),
           Filter(ColId, "IsNotNull", VInt(7)),
           Filter(ColOpt, "Like", VFloat(9, 5)),
           Filter(ColOpt, "Like", VUuid(TextX)),
           Filter(ColOpt, "Like", VDate(TextX)),
           Filter(ColOpt, "Like", VNull),
           Filter(ColOpt, "ILike", VDateTime(TextX)),
           Filter(ColOpt, "ILike", VTime(TextX)),
           Filter(ColActive, "ILike", VString(TextY)),
           Filter(ColName, "Gt", VInt(7)),
           Filter(ColCp, "Gt", VInt(7)),
           Filter(ColId, "Like", VString(TextY)),
           Filter(ColId, "NotIn", VArray(<<>>)),
           Filter(ColName, "Like", VString(TextY)),
           Filter(ColName, "ILike", VString(TextY)),
           Filter(ColCp, "Between", VArray(<<VInt(1)>>)) }

WithSearchParams(search) == [DefaultQueryParams EXCEPT !.search = search]
WithFiltersParams(filters) == [DefaultQueryParams EXCEPT !.filters = filters]


ComputedPropertyInputs ==
    { [name |-> ColCp,
       property |-> ComputedProperty(<<"counterparty.legal_name">>, <<"LEFT JOIN counterparty ON counterparty.id = base_query.counterparty_id">>, "String")],
      [name |-> ColOid,
       property |-> ComputedProperty(<<"(amount_micros / 1000000)">>, <<>>, "Int")] }

MapColumnInputs ==
    { [column |-> ColName, mapper |-> "wrap"], [column |-> ColZz, mapper |-> "wrap_placeholder"] }

ConditionInputs ==
    { [column |-> c, condition |-> ">", value |-> <<"1","8">>] : c \in {ColId, ColZz} }

PrefixBaseQuery == <<"b","a","s","e","_","q","u","e","r","y">>

----------------------------------------------------------------------------
(* i64 arithmetic, at a reduced width *)

IntBits == 8

RECURSIVE Pow2(_)
Pow2(n) == IF n = 0 THEN 1 ELSE 2 * Pow2(n - 1)

I64Max == Pow2(IntBits - 1) - 1
I64Min == - Pow2(IntBits - 1)

Overflows(x) == x < I64Min \/ x > I64Max

\* two's complement wraparound, the result of an overflowing operation in a
\* build without overflow checks
Wrap(x) == ((x - I64Min) % Pow2(IntBits)) + I64Min

\* i64 division truncates toward zero
TruncDiv(a, b) ==
    IF (a >= 0) = (b > 0) THEN (IF a >= 0 THEN a ELSE -a) \div (IF b > 0 THEN b ELSE -b)
    ELSE - ((IF a >= 0 THEN a ELSE -a) \div (IF b > 0 THEN b ELSE -b))

Panic == [panic |-> TRUE, value |-> 0]
Value(x) == [panic |-> FALSE, value |-> x]

\* the result of an arithmetic step whose exact result is x: a panic where the
\* build checks overflow, the wrapped value where it does not
Checked(x, overflow_checks) ==
    IF Overflows(x) THEN (IF overflow_checks THEN Panic ELSE Value(Wrap(x))) ELSE Value(x)

----------------------------------------------------------------------------
(* PaginatedQueryBuilder: builders/paginated_query_builder.rs *)

RECURSIVE SplitOn(_, _)
\* str::split(sep): the parts between the separators
SplitOn(s, sep) ==
    IF ~ \E i \in 1..Len(s) : s[i] = sep THEN <<s>>
    ELSE LET i == CHOOSE k \in 1..Len(s) : s[k] = sep /\ \A j \in 1..(k - 1) : s[j] # sep
         IN  <<SubSeq(s, 1, i - 1)>> \o SplitOn(SubSeq(s, i + 1, Len(s)), sep)

\* internal_utils::quote_identifier: each dot-separated part quoted on its own
QuoteIdentifierParts(identifier) ==
    LET parts == SplitOn(identifier, ".")
    IN  JoinWith([i \in 1..Len(parts) |->
                     <<"\"">> \o Replace(parts[i], "\"", <<"\"", "\"">>) \o <<"\"">>],
                 <<".">>)

QueryBuilderFns == {"safe_defaults", "disabled_protection"}

\* the configured condition-building function, applied to the parameters:
\* build_query_with_safe_defaults and build_query_with_disabled_protection for
\* Postgres, the closure of new_with_defaults and
\* builder_new_query_with_disabled_protection_for_sqlite for SQLite.  (The
\* QueryParams of models.rs carries no date range.)
BuildQueryFn(fn, dialect, params) ==
    LET start == IF dialect = "postgres"
                 THEN WithTablePrefix(NewQueryBuilder(dialect), PrefixBaseQuery)
                 ELSE NewQueryBuilder(dialect)
        built == WithFilters(WithSearch(start, params), params)
    IN  IF fn = "disabled_protection" THEN Build(DisableProtection(built)) ELSE Build(built)

BaseQuerySql == "SELECT * FROM users"

BuildBaseQuery == <<"WITH base_query AS (", BaseQuerySql, ")">>

BuildWhereClause(conditions) ==
    IF conditions = <<>> THEN <<>>
    ELSE <<" WHERE ">> \o JoinWith(conditions, <<" AND ">>)

BuildOrderClause(params) ==
    LET order == IF params.sort.sort_direction = "Ascending" THEN "ASC" ELSE "DESC"
        column_name == QuoteIdentifierParts(params.sort.sort_column)
    IN  <<" ORDER BY ">> \o column_name \o <<" ", order>>

\* (pagination.page - 1) * pagination.page_size
LimitOffset(params, overflow_checks) ==
    LET page_minus_one == Checked(params.pagination.page - 1, overflow_checks)
    IN  IF page_minus_one.panic THEN Panic
        ELSE Checked(page_minus_one.value * params.pagination.page_size, overflow_checks)

BuildLimitOffsetClause(params, offset) ==
    <<" LIMIT ">> \o IntToString(params.pagination.page_size)
        \o <<" OFFSET ">> \o IntToString(offset)

\* a count statement over the whole base query
CountSqlWithoutWhere(where_clause) == BuildBaseQuery \o <<" SELECT COUNT(*) FROM base_query">>

CountSql(where_clause) == BuildBaseQuery \o <<" SELECT COUNT(*) FROM base_query">> \o where_clause

MainSql(params, where_clause, offset) ==
    BuildBaseQuery \o <<" SELECT * FROM base_query">> \o where_clause
        \o BuildOrderClause(params) \o BuildLimitOffsetClause(params, offset)

\* the second invocation of build_query_fn, whose conditions are dropped
CountArguments(fn, dialect, params) == BuildQueryFn(fn, dialect, params).arguments

\* match count { 0 => 0, _ => (count + page_size - 1) / page_size }
AvailablePages(count, page_size, overflow_checks) ==
    IF count = 0 THEN Value(0)
    ELSE LET sum == Checked(count + page_size, overflow_checks)
             numerator == IF sum.panic THEN Panic ELSE Checked(sum.value - 1, overflow_checks)
         IN  IF numerator.panic \/ page_size = 0 THEN Panic
             ELSE Checked(TruncDiv(numerator.value, page_size), overflow_checks)

----------------------------------------------------------------------------
(* fetch_paginated, step by step.  The database is the environment: each       *)
(* statement sent to the pool comes back with a result or with an error.       *)

\* what the pool answers to a statement: rows, or an error
Ok(rows) == [ok |-> TRUE, rows |-> rows, error |-> ""]
Err(e) == [ok |-> FALSE, rows |-> <<>>, error |-> e]

\* a response that leaves the total out
PaginatedResponseWithoutTotal(records, pagination, total, total_pages) ==
    [records |-> records, pagination |-> pagination, total |-> None, total_pages |-> total_pages]

PaginatedResponse(records, pagination, total, total_pages) ==
    [records |-> records, pagination |-> pagination, total |-> total, total_pages |-> total_pages]

\* the Result<PaginatedResponse<T>, sqlx::Error> of fetch_paginated, once returned
NoResult ==
    [returned |-> FALSE, ok |-> FALSE, response |-> PaginatedResponse(<<>>, None, None, None),
     error |-> ""]
ReturnOk(response) == [returned |-> TRUE, ok |-> TRUE, response |-> response, error |-> ""]
ReturnErr(e) == [NoResult EXCEPT !.returned = TRUE, !.error = e]

\* PaginatedQueryBuilder::new_with_defaults, with the fields fetch_paginated fills
NewWithDefaults(dialect) ==
    [ pc |-> "new",
      dialect |-> dialect,
      build_query_fn |-> "safe_defaults",
      params |-> DefaultQueryParams,
      totals_count_enabled |-> TRUE,
      overflow_checks |-> FALSE,
      invocations |-> 0,
      conditions |-> <<>>,
      main_arguments |-> <<>>,
      count_sql |-> None,
      main_sql |-> <<>>,
      executed |-> <<>>,
      answers |-> <<>>,
      total |-> None,
      total_pages |-> None,
      pagination |-> None,
      result |-> NoResult ]

Statement(kind, sql, arguments) == [kind |-> kind, sql |-> sql, arguments |-> arguments]

DatabaseErrors == {"database error", "row decode error"}

Totals == {0, 1, 2, 8, 25, I64Max}
\* fetch_one of the count query: one row holding the count
CountAnswers == {Ok(<<n>>) : n \in Totals} \cup {Err(e) : e \in DatabaseErrors}

RowSets == {<<>>, <<"row 1">>, <<"row 1", "row 2">>}
PageAnswers == {Ok(rows) : rows \in RowSets} \cup {Err(e) : e \in DatabaseErrors}

FetchSearchInputs ==
    { [search |-> None, search_columns |-> DefaultSearchColumns],
      [search |-> Some(TermA), search_columns |-> Some(<<ColName, ColZz>>)],
      [search |-> Some(TermBlank), search_columns |-> Some(<<ColName>>)] }

FetchFilterInputs ==
    { Filter(ColId, "Eq", VInt(7)),
      Filter(ColOpt, "In", VArray(<<VString(TextX), VString(TextY)>>)),
      Filter(ColName, "Like", VString(TextY)),
      Filter(ColZz, "Eq", VString(TextX)) }

PaginationInputs ==
    { [page |-> pg, page_size |-> sz] : pg \in {1, 2, 3}, sz \in {1, 10, 100, I64Max} }
    \cup { [page |-> 0, page_size |-> 10], [page |-> 1, page_size |-> 0] }


SortInputs ==
    { [sort_direction |-> d, sort_column |-> ColName] : d \in {"Ascending", "Descending"} }
    \cup { [sort_direction |-> "Ascending", sort_column |-> c] : c \in {<<"t", ".", "c">>, ColRowid, ColPgX} }

FetchParamsInputs ==
    { [DefaultQueryParams EXCEPT !.search = s, !.filters = fs] :
          s \in FetchSearchInputs, fs \in SeqsUpTo(FetchFilterInputs, MaxWork) }
    \cup { [DefaultQueryParams EXCEPT !.pagination = pg, !.sort = so] :
          pg \in PaginationInputs, so \in SortInputs }

----------------------------------------------------------------------------
(* QueryParamsBuilder: builders/query_params_builder.rs *)

DEFAULT_MAX_PAGE_SIZE == 100

\* QueryParamsBuilder::new
NewQueryParamsBuilder == [query |-> DefaultQueryParams]

\* a with_pagination that stores what it is given
ParamsWithPaginationUnclamped(builder, page, page_size) ==
    [builder EXCEPT !.query.pagination = [page |-> page, page_size |-> page_size]]

\* QueryParamsBuilder::with_pagination: page.max(DEFAULT_PAGE) and
\* page_size.clamp(DEFAULT_MIN_PAGE_SIZE, DEFAULT_MAX_PAGE_SIZE)
ParamsWithPagination(builder, page, page_size) ==
    [builder EXCEPT
        !.query.pagination =
            [ page |-> IF page >= DEFAULT_PAGE THEN page ELSE DEFAULT_PAGE,
              page_size |-> IF page_size < DEFAULT_MIN_PAGE_SIZE THEN DEFAULT_MIN_PAGE_SIZE
                            ELSE IF page_size > DEFAULT_MAX_PAGE_SIZE
                            THEN DEFAULT_MAX_PAGE_SIZE
                            ELSE page_size ]]

\* QueryParamsBuilder::with_sort
ParamsWithSort(builder, sort_column, sort_direction) ==
    [builder EXCEPT
        !.query.sort = [sort_direction |-> sort_direction, sort_column |-> sort_column]]

\* QueryParamsBuilder::build
ParamsBuild(builder) == builder.query

\* the arguments of with_pagination: the ends of i64, zero, and both sides of
\* each limit
PaginationArguments ==
    { [page |-> page, page_size |-> page_size] :
          page \in {I64Min, -1, 0, 1, 2, I64Max},
          page_size \in
              { I64Min, -1, 0, 1,
                DEFAULT_MIN_PAGE_SIZE - 1, DEFAULT_MIN_PAGE_SIZE, DEFAULT_MIN_PAGE_SIZE + 1,
                DEFAULT_MAX_PAGE_SIZE - 1, DEFAULT_MAX_PAGE_SIZE, DEFAULT_MAX_PAGE_SIZE + 1,
                I64Max } }

----------------------------------------------------------------------------
(* The connection pool that fetch_paginated is given *)

RECURSIVE SumOver(_, _)
\* the sum of the numbers of a sequence, from position i on
SumOver(seq, i) == IF i > Len(seq) THEN 0 ELSE seq[i] + SumOver(seq, i + 1)

\* SqlitePoolOptions::new().max_connections(1)
PoolSize == 1

\* the fetch_paginated calls that run concurrently
MaxCalls == 3

\* the connections of the pool that no call holds
Idle == PoolSize - SumOver([c \in 1..MaxCalls |-> calls[c].held], 1)

----------------------------------------------------------------------------
(* The builder as a state machine: a fresh builder, then its methods in any order *)

Call(method, params, arg) == [method |-> method, params |-> params, arg |-> arg, before |-> qb]

NoArg == [column |-> <<>>, condition |-> "", value |-> <<>>]

Init ==
    /\ \E dialect \in Dialects :
          /\ qb = NewQueryBuilder(dialect)
          /\ fp = NewWithDefaults(dialect)
    /\ last = [method |-> "new", params |-> DefaultQueryParams, arg |-> NoArg, before |-> qb]
    /\ work = 0
    /\ pb = [builder |-> NewQueryParamsBuilder, called |-> FALSE,
            input |-> [page |-> 0, page_size |-> 0]]
    /\ calls = [c \in 1..MaxCalls |-> [pc |-> "new", held |-> 0]]

Cost(n) == IF n = 0 THEN 1 ELSE n

CallWithSearch ==
    /\ work < MaxWork
    /\ \E search \in SearchInputs(MaxWork - work) :
          LET params == WithSearchParams(search) IN
          /\ qb' = WithSearch(qb, params)
          /\ last' = Call("with_search", params, NoArg)
          /\ work' = work + Cost(IF search.search_columns.some
                                 THEN Len(search.search_columns.value) ELSE 0)
    /\ UNCHANGED <<fp, pb, calls>>

CallWithFilters ==
    /\ work < MaxWork
    /\ \E filters \in SeqsUpTo(FilterInputs, MaxWork - work) :
          LET params == WithFiltersParams(filters) IN
          /\ qb' = WithFilters(qb, params)
          /\ last' = Call("with_filters", params, NoArg)
          /\ work' = work + Cost(Len(filters))
    /\ UNCHANGED <<fp, pb, calls>>

CallWithCondition ==
    /\ work < MaxWork
    /\ \E c \in ConditionInputs :
          /\ qb' = WithCondition(qb, c.column, c.condition, c.value)
          /\ last' = Call("with_condition", DefaultQueryParams, c)
    /\ work' = work + 1
    /\ UNCHANGED <<fp, pb, calls>>

Configure(method, b) ==
    /\ work < MaxWork
    /\ qb' = b
    /\ last' = Call(method, DefaultQueryParams, NoArg)
    /\ work' = work + 1
    /\ UNCHANGED <<fp, pb, calls>>

CallDisableProtection == Configure("disable_protection", DisableProtection(qb))
CallEnableProtection == Configure("enable_protection", EnableProtection(qb))
CallDisableColumnValidation ==
    Configure("disable_column_validation", DisableColumnValidation(qb))
CallEnableColumnValidation ==
    Configure("enable_column_validation", EnableColumnValidation(qb))
CallWithTablePrefix == Configure("with_table_prefix", WithTablePrefix(qb, PrefixBaseQuery))

CallWithComputedProperty ==
    \E cp \in ComputedPropertyInputs :
        Configure("with_computed_property", WithComputedProperty(qb, cp.name, cp.property))

CallMapColumn ==
    \E m \in MapColumnInputs : Configure("map_column", MapColumn(qb, m.column, m.mapper))

Next ==
    \/ CallWithSearch
    \/ CallWithFilters
    \/ CallWithCondition
    \/ CallDisableProtection
    \/ CallEnableProtection
    \/ CallDisableColumnValidation
    \/ CallEnableColumnValidation
    \/ CallWithTablePrefix
    \/ CallWithComputedProperty
    \/ CallMapColumn

Spec == Init /\ [][Next]_vars

----------------------------------------------------------------------------
(* fetch_paginated as a state machine *)

FpWithParams ==
    /\ fp.pc = "new"
    /\ \E params \in FetchParamsInputs : fp' = [fp EXCEPT !.params = params]
    /\ UNCHANGED <<qb, last, work, pb, calls>>

FpDisableTotalsCount ==
    /\ fp.pc = "new"
    /\ fp' = [fp EXCEPT !.totals_count_enabled = FALSE]
    /\ UNCHANGED <<qb, last, work, pb, calls>>

FpWithQueryBuilder ==
    /\ fp.pc = "new"
    /\ \E fn \in QueryBuilderFns : fp' = [fp EXCEPT !.build_query_fn = fn]
    /\ UNCHANGED <<qb, last, work, pb, calls>>

\* fetch_paginated up to its first await: the SQL strings, both argument lists,
\* and the first statement handed to the pool
FetchStart ==
    /\ fp.pc = "new"
    /\ \E overflow_checks \in BOOLEAN :
          LET built == BuildQueryFn(fp.build_query_fn, fp.dialect, fp.params)
              where_clause == BuildWhereClause(built.conditions)
              offset == LimitOffset(fp.params, overflow_checks)
              count_sql == IF fp.totals_count_enabled THEN Some(CountSql(where_clause)) ELSE None
              main_sql == MainSql(fp.params, where_clause, offset.value)
              started == [fp EXCEPT !.overflow_checks = overflow_checks,
                                    !.invocations = 1,
                                    !.conditions = built.conditions,
                                    !.main_arguments = built.arguments,
                                    !.count_sql = count_sql,
                                    !.main_sql = main_sql]
          IN  IF offset.panic
              THEN fp' = [fp EXCEPT !.pc = "panicked",
                                    !.overflow_checks = overflow_checks,
                                    !.invocations = 1]
              ELSE IF fp.totals_count_enabled
              THEN fp' = [started EXCEPT
                             !.pc = "count",
                             !.invocations = 2,
                             !.executed =
                                 <<Statement("count", count_sql.value,
                                       CountArguments(fp.build_query_fn, fp.dialect, fp.params))>>]
              ELSE fp' = [started EXCEPT
                             !.pc = "page",
                             !.executed = <<Statement("page", main_sql, built.arguments)>>]
    /\ UNCHANGED <<qb, last, work, pb, calls>>

\* a count step that goes on to the page query whatever the count query answered
CountReturnsIgnoringError ==
    /\ fp.pc = "count"
    /\ \E answer \in CountAnswers :
          fp' = [fp EXCEPT !.pc = "page",
                           !.answers = Append(@, answer),
                           !.executed = Append(@, Statement("page", fp.main_sql, fp.main_arguments))]
    /\ UNCHANGED <<qb, last, work, pb, calls>>

\* the count query's answer: `?` returns its error; otherwise total_pages is
\* computed and the page query is handed to the pool
CountReturns ==
    /\ fp.pc = "count"
    /\ \E answer \in CountAnswers :
          LET answered == [fp EXCEPT !.answers = Append(@, answer)] IN
          IF ~ answer.ok
          THEN fp' = [answered EXCEPT !.pc = "returned", !.result = ReturnErr(answer.error)]
          ELSE LET count == answer.rows[1]
                   available_pages ==
                       AvailablePages(count, fp.params.pagination.page_size,
                                      fp.overflow_checks)
               IN  IF available_pages.panic
                   THEN fp' = [answered EXCEPT !.pc = "panicked"]
                   ELSE fp' = [answered EXCEPT
                                  !.pc = "page",
                                  !.total = Some(count),
                                  !.total_pages = Some(available_pages.value),
                                  !.pagination = Some(fp.params.pagination),
                                  !.executed =
                                      Append(@, Statement("page", fp.main_sql, fp.main_arguments))]
    /\ UNCHANGED <<qb, last, work, pb, calls>>

\* a page step that hands the page query to the pool again when it failed
PageReturnsRetrying ==
    /\ fp.pc = "page"
    /\ \E answer \in PageAnswers :
          LET answered == [fp EXCEPT !.answers = Append(@, answer)] IN
          IF ~ answer.ok /\ Len(fp.executed) < 3
          THEN fp' = [answered EXCEPT
                         !.executed = Append(@, Statement("page", fp.main_sql, fp.main_arguments))]
          ELSE fp' = [answered EXCEPT
                         !.pc = "returned",
                         !.result = IF answer.ok
                                    THEN ReturnOk(PaginatedResponse(answer.rows, fp.pagination,
                                                                    fp.total, fp.total_pages))
                                    ELSE ReturnErr(answer.error)]
    /\ UNCHANGED <<qb, last, work, pb, calls>>

\* the page query's answer: `?` returns its error; otherwise the response
PageReturns ==
    /\ fp.pc = "page"
    /\ \E answer \in PageAnswers :
          LET answered == [fp EXCEPT !.answers = Append(@, answer), !.pc = "returned"] IN
          IF ~ answer.ok
          THEN fp' = [answered EXCEPT !.result = ReturnErr(answer.error)]
          ELSE fp' = [answered EXCEPT
                         !.result = ReturnOk(PaginatedResponse(answer.rows, fp.pagination,
                                                               fp.total, fp.total_pages))]
    /\ UNCHANGED <<qb, last, work, pb, calls>>

NextFetch ==
    \/ FpWithParams
    \/ FpDisableTotalsCount
    \/ FpWithQueryBuilder
    \/ FetchStart
    \/ CountReturns
    \/ PageReturns

SpecFetch == Init /\ [][NextFetch]_vars

----------------------------------------------------------------------------
(* The QueryParamsBuilder as a state machine: new, then its methods in any order *)

PbWithPagination ==
    /\ \E input \in PaginationArguments :
          pb' = [builder |-> ParamsWithPagination(pb.builder, input.page, input.page_size),
                 called |-> TRUE,
                 input |-> input]
    /\ UNCHANGED <<qb, last, work, fp, calls>>

PbWithSort ==
    /\ \E sort \in SortInputs :
          pb' = [pb EXCEPT !.builder =
                               ParamsWithSort(@, sort.sort_column, sort.sort_direction)]
    /\ UNCHANGED <<qb, last, work, fp, calls>>

NextParams ==
    \/ PbWithPagination
    \/ PbWithSort

SpecParams == Init /\ [][NextParams]_vars

----------------------------------------------------------------------------
(* Concurrent fetch_paginated calls on one pool.  A query executed on the pool *)
(* (fetch_one(pool), fetch_all(pool)) acquires a connection, waiting while     *)
(* none is idle, runs on it, and gives it back before its future resolves.     *)

\* fetch_paginated up to its first query: the count query with totals enabled,
\* the page query with totals disabled
PoolFetchPaginated ==
    /\ \E c \in 1..MaxCalls, totals_count_enabled \in BOOLEAN :
          /\ calls[c].pc = "new"
          /\ calls' = [calls EXCEPT ![c].pc = IF totals_count_enabled THEN "count_acquire"
                                              ELSE "page_acquire"]
    /\ UNCHANGED <<qb, last, work, fp, pb>>

\* the query of a waiting call is given an idle connection
PoolAcquire ==
    /\ \E c \in 1..MaxCalls :
          /\ calls[c].pc \in {"count_acquire", "page_acquire"}
          /\ Idle > 0
          /\ calls' = [calls EXCEPT
                           ![c].held = @ + 1,
                           ![c].pc = IF @ = "count_acquire" THEN "count_query"
                                     ELSE "page_query"]
    /\ UNCHANGED <<qb, last, work, fp, pb>>

\* a fetch_paginated that keeps the count query's connection for the page query
PoolCountReturnsKeepingConnection ==
    /\ \E c \in 1..MaxCalls, outcome \in {"ok", "error", "panic"} :
          /\ calls[c].pc = "count_query"
          /\ calls' = [calls EXCEPT
                           ![c].held = IF outcome = "ok" THEN @ ELSE @ - 1,
                           ![c].pc = CASE outcome = "ok" -> "page_acquire"
                                       [] outcome = "error" -> "returned"
                                       [] outcome = "panic" -> "panicked"]
    /\ UNCHANGED <<qb, last, work, fp, pb>>

\* the count query resolves, its connection back in the pool: `?` returns its
\* error, the computation of total_pages may panic, otherwise the page query is next
PoolCountReturns ==
    /\ \E c \in 1..MaxCalls, outcome \in {"ok", "error", "panic"} :
          /\ calls[c].pc = "count_query"
          /\ calls' = [calls EXCEPT
                           ![c].held = @ - 1,
                           ![c].pc = CASE outcome = "ok" -> "page_acquire"
                                       [] outcome = "error" -> "returned"
                                       [] outcome = "panic" -> "panicked"]
    /\ UNCHANGED <<qb, last, work, fp, pb>>

\* the page query resolves, its connection back in the pool, and the call returns
PoolPageReturns ==
    /\ \E c \in 1..MaxCalls :
          /\ calls[c].pc = "page_query"
          /\ calls' = [calls EXCEPT ![c].held = @ - 1, ![c].pc = "returned"]
    /\ UNCHANGED <<qb, last, work, fp, pb>>

NextPool ==
    \/ PoolFetchPaginated
    \/ PoolAcquire
    \/ PoolCountReturns
    \/ PoolPageReturns

\* The runtime polls every task that can make progress, the pool hands an idle
\* connection to a waiting query, and the database answers every query.
SpecPool == Init /\ [][NextPool]_vars /\ WF_vars(NextPool)

----------------------------------------------------------------------------
(* Reading the SQL text of a condition *)

\* the most arguments the calls of one behaviour can bind
MaxOrdinal == 2 * MaxWork + 2

\* the placeholder tokens of both dialects
PlaceholderTokens ==
    {Placeholder("sqlite", 1)} \cup {Placeholder("postgres", n) : n \in 1..MaxOrdinal}

IsPlaceholder(piece) == piece \in PlaceholderTokens

PlaceholdersOf(pieces) == SelectSeq(pieces, IsPlaceholder)

PlaceholderCount(pieces) == Len(PlaceholdersOf(pieces))

Ordinal(piece) == CHOOSE n \in 1..MaxOrdinal : piece = Placeholder("postgres", n)

RECURSIVE Dedup(_)
\* a sequence without the later occurrences of its elements
Dedup(seq) ==
    IF seq = <<>> THEN <<>>
    ELSE LET front == Dedup(SubSeq(seq, 1, Len(seq) - 1))
             x == seq[Len(seq)]
         IN  IF \E i \in 1..Len(front) : front[i] = x THEN front ELSE Append(front, x)

\* the ordinals of the $N placeholders of a piece of SQL, in order of first occurrence
Ordinals(pieces) ==
    LET ph == PlaceholdersOf(pieces) IN Dedup([i \in 1..Len(ph) |-> Ordinal(ph[i])])

Flatten(seqs) == JoinWith(seqs, <<>>)

NewConditions == (Len(last.before.conditions) + 1)..Len(qb.conditions)

----------------------------------------------------------------------------
(* C1: values never reach the SQL text *)

IsBlank(term) == ~ term.some \/ Trim(term.value) = <<>>

SearchTerms == {None, Some(TermEmpty), Some(TermBlank), Some(TermA), Some(TermB)}

RECURSIVE OtherContents(_)
\* a value of the same variant with other scalar contents; an array keeps its length
OtherContents(v) ==
    CASE v.variant \in {"String", "Uuid", "DateTime", "Date", "Time"} ->
            [v EXCEPT !.text = <<"'", ";", "$", "1">> \o v.text]
      [] v.variant = "Int" -> [v EXCEPT !.int = v.int + 1]
      [] v.variant = "Float" -> [v EXCEPT !.int = v.int + 1, !.frac = 5 - v.frac]
      [] v.variant = "Bool" -> [v EXCEPT !.bool = ~ v.bool]
      [] v.variant = "Array" ->
            [v EXCEPT !.arr = [i \in 1..Len(v.arr) |-> OtherContents(v.arr[i])]]
      [] OTHER -> v

OtherFilters(filters) ==
    [i \in 1..Len(filters) |-> [filters[i] EXCEPT !.value = OtherContents(filters[i].value)]]

\* the QueryParams that differ from params only in the search term, taken from
\* terms, and in the scalar contents of the filter values
ValueVariants(params, terms) ==
    { [params EXCEPT !.search.search = t, !.filters = fs] :
          t \in terms, fs \in {params.filters, OtherFilters(params.filters)} }

\* fetch_paginated has built its SQL strings and handed over its first statement
SqlBuilt == fp.pc \in {"count", "page"} /\ fp.answers = <<>>

\* fetch_paginated on other builds the condition list and the SQL strings this fetch built
SameSql(other) ==
    LET built == BuildQueryFn(fp.build_query_fn, fp.dialect, other)
        where_clause == BuildWhereClause(built.conditions)
    IN  /\ built.conditions = fp.conditions
        /\ Len(built.arguments) = Len(fp.main_arguments)
        /\ fp.count_sql.some => CountSql(where_clause) = fp.count_sql.value
        /\ MainSql(other, where_clause, LimitOffset(other, fp.overflow_checks).value) = fp.main_sql

\* C1 as stated: any two QueryParams that differ only in the search term or in the
\* scalar contents of the filter values give the same condition list and the same
\* count and page SQL.
C1_SqlIndependentOfValues ==
    SqlBuilt => \A other \in ValueVariants(fp.params, SearchTerms) : SameSql(other)

\* C1, amended: two QueryParams that differ only in the scalar contents of the
\* filter values and in the search term, where both terms are blank (absent, empty
\* or whitespace) or both are not, give the same condition list and the same count
\* and page SQL; the differing values are in the argument lists only.
C1_SqlIndependentOfValues_SameBlankness ==
    SqlBuilt =>
        \A other \in ValueVariants(fp.params,
                         {t \in SearchTerms : IsBlank(t) = IsBlank(fp.params.search.search)}) :
            SameSql(other)

\* a fetch with a search condition and a filter condition, and a variant of its
\* parameters that binds other arguments
C1_Witness ==
    /\ SqlBuilt
    /\ ~ IsBlank(fp.params.search.search)
    /\ Len(fp.conditions) >= 2
    /\ \E other \in ValueVariants(fp.params, {Some(TermB)}) :
          BuildQueryFn(fp.build_query_fn, fp.dialect, other).arguments # fp.main_arguments

----------------------------------------------------------------------------
(* C2: unsafe columns are dropped silently *)

Unsafe(b, column) == column \notin DOMAIN b.computed_properties /\ ~ IsColumnSafe(b, column)

RECURSIVE KeepFilters(_, _)
\* the filters whose field the builder b does not reject
KeepFilters(b, filters) ==
    IF filters = <<>> THEN <<>>
    ELSE (IF Unsafe(b, Head(filters).field) THEN <<>> ELSE <<Head(filters)>>)
             \o KeepFilters(b, Tail(filters))

RECURSIVE KeepColumns(_, _)
\* the columns the builder b does not reject
KeepColumns(b, columns) ==
    IF columns = <<>> THEN <<>>
    ELSE (IF Unsafe(b, Head(columns)) THEN <<>> ELSE <<Head(columns)>>)
             \o KeepColumns(b, Tail(columns))

\* params without the filters and the search columns that b rejects
WithoutUnsafe(b, params) ==
    [params EXCEPT
        !.filters = KeepFilters(b, params.filters),
        !.search.search_columns =
            IF params.search.search_columns.some
            THEN Some(KeepColumns(b, params.search.search_columns.value))
            ELSE None]

\* C2: a filter field or search column that is not a computed property and fails
\* is_column_safe contributes nothing: with_filters and with_search leave the
\* conditions and arguments they would leave had the column not been requested.
C2_UnsafeColumnsContributeNothing ==
    last.method \in {"with_search", "with_filters"} =>
        LET safe_only == WithoutUnsafe(last.before, last.params)
            expected == IF last.method = "with_search"
                        THEN WithSearch(last.before, safe_only)
                        ELSE WithFilters(last.before, safe_only)
        IN  /\ qb.conditions = expected.conditions
            /\ qb.arguments = expected.arguments

----------------------------------------------------------------------------
(* C3: the denylist and the validation toggle *)

ColPgClass == <<"p","g","_","c","l","a","s","s">>
ColSqliteMaster == <<"s","q","l","i","t","e","_","m","a","s","t","e","r">>

ColumnUniverse ==
    {ColName, ColOid, ColZz, ColPgX, ColRowid, ColCp, ColPgClass, ColSqliteMaster}

OnDenylist(dialect, column) == ~ ProtectionIsSafe(dialect, column)

AcceptsUnmodeled(b, column) ==
    (~ b.column_validation_enabled /\ column \notin b.valid_columns
         /\ ~ OnDenylist(b.dialect, column))
        => IsColumnSafe(b, column)

\* C3 as stated: with protection enabled, is_column_safe rejects every column on
\* the dialect's denylist, validation enabled or not, and with validation disabled
\* accepts a column absent from the model that is not on the denylist.
C3_DenylistRejects ==
    qb.protection_enabled =>
        \A column \in ColumnUniverse :
            /\ OnDenylist(qb.dialect, column) => ~ IsColumnSafe(qb, column)
            /\ AcceptsUnmodeled(qb, column)

\* C3, amended: with protection enabled, is_column_safe rejects every column on
\* the dialect's denylist that is not a registered computed property, validation
\* enabled or not, and with validation disabled accepts a column absent from the
\* model that is not on the denylist.
C3_DenylistRejects_UnlessComputed ==
    qb.protection_enabled =>
        \A column \in ColumnUniverse :
            /\ (OnDenylist(qb.dialect, column) /\ column \notin DOMAIN qb.computed_properties)
                   => ~ IsColumnSafe(qb, column)
            /\ AcceptsUnmodeled(qb, column)

\* with validation disabled and protection enabled, a filter on the denylisted
\* oid, not a computed property, was dropped
C3_Witness ==
    /\ last.method = "with_filters"
    /\ last.before.protection_enabled
    /\ ~ last.before.column_validation_enabled
    /\ Len(last.params.filters) = 1
    /\ last.params.filters[1].field = ColOid
    /\ OnDenylist(qb.dialect, ColOid)
    /\ ColOid \notin DOMAIN qb.computed_properties
    /\ qb.conditions = <<>>

----------------------------------------------------------------------------
(* C4: conditions and arguments in lockstep *)

\* the values a condition binds, from the call that emitted it
ExpectedValues(src) ==
    CASE src.kind = "search" -> << <<"%">> \o last.params.search.search.value \o <<"%">> >>
      [] src.kind = "condition" -> <<last.arg.value>>
      [] OTHER ->
            LET filter == last.params.filters[src.index]
                values == ToBindableStrings(filter.value)
            IN  CASE filter.operator \in {"In", "NotIn"} -> values
                  [] filter.operator = "Between" -> SubSeq(values, 1, 2)
                  [] filter.operator \in {"IsNull", "IsNotNull"} -> <<>>
                  [] OTHER -> <<ToBindableString(filter.value)>>

SrcKind(method) ==
    CASE method = "with_search" -> "search"
      [] method = "with_filters" -> "filter"
      [] method = "with_condition" -> "condition"
      [] OTHER -> "none"

\* C4: on a Postgres builder without mappers, the ordinals of the placeholders in
\* the condition list are 1..K in order of first occurrence, K the number of
\* arguments; each call keeps the earlier conditions and arguments and appends its
\* own in the order it processed them; the arguments at the ordinals of a
\* condition are the values of the search, filter or condition that emitted it.
C4_Lockstep ==
    (qb.dialect = "postgres" /\ DOMAIN qb.mappers = {}) =>
        LET n0 == Len(last.before.conditions)
            k0 == Len(last.before.arguments)
        IN  /\ Ordinals(Flatten(qb.conditions)) = [i \in 1..Len(qb.arguments) |-> i]
            /\ n0 <= Len(qb.conditions)
            /\ SubSeq(qb.conditions, 1, n0) = last.before.conditions
            /\ k0 <= Len(qb.arguments)
            /\ SubSeq(qb.arguments, 1, k0) = last.before.arguments
            /\ Len(qb.cond_src) = Len(qb.conditions)
            /\ \A c \in NewConditions :
                  LET ords == Ordinals(qb.conditions[c]) IN
                  /\ qb.cond_src[c].kind = SrcKind(last.method)
                  /\ \A d \in NewConditions :
                        c < d => qb.cond_src[c].index < qb.cond_src[d].index
                  /\ [i \in 1..Len(ords) |-> qb.arguments[ords[i]]]
                         = ExpectedValues(qb.cond_src[c])

\* two filters after an earlier condition: $1, then $2 and $3 of an IN list
C4_Witness ==
    /\ qb.dialect = "postgres"
    /\ DOMAIN qb.mappers = {}
    /\ last.method = "with_filters"
    /\ Len(last.before.arguments) = 1
    /\ Len(qb.arguments) = 3
    /\ Len(qb.conditions) = 2

----------------------------------------------------------------------------
(* C5: SQLite search placeholders and arguments *)

SearchApplies(b, params) ==
    /\ ~ IsBlank(params.search.search)
    /\ params.search.search_columns.some
    /\ Len(params.search.search_columns.value) >= 1
    /\ \A i \in 1..Len(params.search.search_columns.value) :
          IsColumnSafe(b, params.search.search_columns.value[i])

\* C5: on SQLite, with_search with a non-blank term over N >= 1 safe columns
\* appends one condition with N `?` placeholders and binds N arguments.
C5_SqliteSearchBindsPerPlaceholder ==
    (qb.dialect = "sqlite" /\ last.method = "with_search"
         /\ SearchApplies(last.before, last.params)) =>
        LET n == Len(last.params.search.search_columns.value) IN
        /\ Len(qb.conditions) = Len(last.before.conditions) + 1
        /\ PlaceholderCount(qb.conditions[Len(qb.conditions)]) = n
        /\ Len(qb.arguments) = Len(last.before.arguments) + n

----------------------------------------------------------------------------
(* C6: total_pages *)

CountAnswered == fp.totals_count_enabled /\ Len(fp.answers) >= 1 /\ fp.answers[1].ok

CeilDiv(a, b) == (a + b - 1) \div b

\* C6: with totals enabled, for every counted total >= 0 and page_size >= 1,
\* total_pages is 0 when the total is 0 and ceil(total / page_size) otherwise.
C6_TotalPagesIsCeiling ==
    (CountAnswered /\ fp.answers[1].rows[1] >= 0 /\ fp.params.pagination.page_size >= 1) =>
        LET total == fp.answers[1].rows[1]
            page_size == fp.params.pagination.page_size
        IN  /\ fp.pc # "panicked"
            /\ fp.total_pages.some
            /\ fp.total_pages.value = IF total = 0 THEN 0 ELSE CeilDiv(total, page_size)

----------------------------------------------------------------------------
(* C7: the shape of the response *)

\* C7: in a returned PaginatedResponse, pagination, total and total_pages are all
\* present when totals are enabled and all absent when they are disabled, the
\* pagination is that of the parameters, and records are the rows the page query
\* returned.
C7_ResponseShape ==
    (fp.pc = "returned" /\ fp.result.ok) =>
        LET response == fp.result.response IN
        /\ response.pagination.some = fp.totals_count_enabled
        /\ response.total.some = fp.totals_count_enabled
        /\ response.total_pages.some = fp.totals_count_enabled
        /\ response.pagination.some => response.pagination.value = fp.params.pagination
        /\ response.total.some => response.total.value = fp.answers[1].rows[1]
        /\ fp.executed[Len(fp.executed)].kind = "page"
        /\ response.records = fp.answers[Len(fp.answers)].rows

\* a response without totals that carries two rows
C7_Witness ==
    /\ fp.pc = "returned"
    /\ fp.result.ok
    /\ ~ fp.totals_count_enabled
    /\ ~ fp.result.response.total.some
    /\ Len(fp.result.response.records) = 2

----------------------------------------------------------------------------
(* C8: no partial result *)

CountFailed == fp.totals_count_enabled /\ Len(fp.answers) >= 1 /\ ~ fp.answers[1].ok

PageFailed ==
    /\ fp.executed # <<>>
    /\ Len(fp.answers) = Len(fp.executed)
    /\ fp.executed[Len(fp.executed)].kind = "page"
    /\ ~ fp.answers[Len(fp.answers)].ok

ReturnedError(e) ==
    /\ fp.pc = "returned"
    /\ fp.result.returned
    /\ ~ fp.result.ok
    /\ fp.result.error = e
    /\ fp.result.response = NoResult.response

\* C8: a failed count query returns its error and no page query is ever executed;
\* a failed page query returns its error and nothing of the total; an Ok response
\* is returned only when every executed query succeeded.
C8_NoPartialResult ==
    /\ CountFailed =>
          /\ ReturnedError(fp.answers[1].error)
          /\ \A i \in 1..Len(fp.executed) : fp.executed[i].kind # "page"
    /\ PageFailed => ReturnedError(fp.answers[Len(fp.answers)].error)
    /\ (fp.result.returned /\ fp.result.ok) =>
          /\ fp.executed # <<>>
          /\ Len(fp.answers) = Len(fp.executed)
          /\ \A i \in 1..Len(fp.answers) : fp.answers[i].ok

\* the page query failed after the count query had answered 8
C8_Witness ==
    /\ PageFailed
    /\ Len(fp.answers) = 2
    /\ fp.total.some
    /\ fp.total.value = 8
    /\ fp.result.returned

----------------------------------------------------------------------------
(* C9: the count query and the page query *)

PositionOf(pieces, piece) ==
    IF \E i \in 1..Len(pieces) : pieces[i] = piece
    THEN CHOOSE i \in 1..Len(pieces) : pieces[i] = piece /\ \A j \in 1..(i - 1) : pieces[j] # piece
    ELSE Len(pieces) + 1

\* the WHERE clause of a statement: from " WHERE " to the ORDER BY clause or the end
WherePart(sql) ==
    SubSeq(sql, PositionOf(sql, " WHERE "), PositionOf(sql, " ORDER BY ") - 1)

----------------------------------------------------------------------------
(* C10: the comparison operators *)

ComparisonOperators == {"Eq", "Ne", "Gt", "Lt", "Gte", "Lte"}

\* the declared type of the filter's column, or the type of its value where the
\* declared type is Unknown
EffectiveFieldType(b, filter) ==
    LET field_type ==
            IF filter.field \in DOMAIN b.computed_properties
            THEN b.computed_properties[filter.field].field_type
            ELSE IF filter.field \in DOMAIN b.field_meta THEN b.field_meta[filter.field]
            ELSE "Unknown"
    IN  IF field_type = "Unknown" THEN ToFieldType(filter.value) ELSE field_type

\* C10: for every filter on a safe column with an operator among Eq, Ne, Gt, Lt,
\* Gte, Lte, with_filters appends exactly one condition, which holds exactly one
\* placeholder, followed to the end by the dialect's cast suffix for the filter's
\* effective type; the call binds one argument per placeholder it emitted, so each
\* such filter binds exactly one.
C10_ComparisonOnePlaceholderWithCast ==
    last.method = "with_filters" =>
        LET b == last.before
            filters == last.params.filters
            ConditionsOf(j) == {c \in NewConditions : qb.cond_src[c] = FilterSrc(j)}
        IN  /\ \A j \in 1..Len(filters) :
                  (filters[j].operator \in ComparisonOperators
                       /\ IsColumnSafe(b, filters[j].field)) =>
                      /\ Cardinality(ConditionsOf(j)) = 1
                      /\ LET condition == qb.conditions[CHOOSE c \in ConditionsOf(j) : TRUE]
                             at == {k \in 1..Len(condition) : IsPlaceholder(condition[k])}
                         IN  /\ Cardinality(at) = 1
                             /\ SubSeq(condition, (CHOOSE k \in at : TRUE) + 1, Len(condition))
                                    = TypeCast(qb.dialect, EffectiveFieldType(b, filters[j]))
            /\ Len(qb.arguments) - Len(b.arguments)
                   = SumOver([c \in 1..Len(qb.conditions) |->
                                  IF c \in NewConditions THEN PlaceholderCount(qb.conditions[c])
                                  ELSE 0], 1)
            /\ (\A j \in 1..Len(filters) : filters[j].operator \in ComparisonOperators) =>
                  Len(qb.arguments) - Len(b.arguments)
                      = Cardinality({j \in 1..Len(filters) : IsColumnSafe(b, filters[j].field)})

\* a comparison on a column of unknown type whose Float value gives the cast, on
\* Postgres, after an earlier argument
C10_Witness ==
    /\ last.method = "with_filters"
    /\ qb.dialect = "postgres"
    /\ Len(last.params.filters) = 1
    /\ last.params.filters[1].field = ColOpt
    /\ last.params.filters[1].value.variant = "Float"
    /\ Len(last.before.arguments) = 1
    /\ Len(qb.arguments) = 2
    /\ qb.conditions[Len(qb.conditions)][Len(qb.conditions[Len(qb.conditions)])] = "::float8"

----------------------------------------------------------------------------
(* C11: In and NotIn *)

\* the conditions that the filter at position j of the last call appended
ConditionsOfFilter(j) == {c \in NewConditions : qb.cond_src[c] = FilterSrc(j)}

\* every placeholder of the condition is directly followed by the cast suffix
EachPlaceholderCast(condition, type_cast) ==
    \A k \in 1..Len(condition) :
        IsPlaceholder(condition[k]) =>
            /\ k + Len(type_cast) <= Len(condition)
            /\ SubSeq(condition, k + 1, k + Len(type_cast)) = type_cast

\* the arguments bound by the call are as many as the placeholders it emitted
BindsPerPlaceholder ==
    Len(qb.arguments) - Len(last.before.arguments)
        = SumOver([c \in 1..Len(qb.conditions) |->
                       IF c \in NewConditions THEN PlaceholderCount(qb.conditions[c]) ELSE 0], 1)

\* C11: for an In or NotIn filter on a safe column whose array value has N
\* elements, with_filters emits one condition with N placeholders, each followed
\* by the cast suffix, and binds N arguments; when N = 0 it emits no condition
\* (never IN ()) and binds no argument.
C11_InBindsEachElement ==
    last.method = "with_filters" =>
        LET b == last.before
            filters == last.params.filters
        IN  /\ \A j \in 1..Len(filters) :
                  (filters[j].operator \in {"In", "NotIn"}
                       /\ filters[j].value.variant = "Array"
                       /\ IsColumnSafe(b, filters[j].field)) =>
                      LET N == Len(filters[j].value.arr)
                      IN  IF N = 0 THEN ConditionsOfFilter(j) = {}
                          ELSE /\ Cardinality(ConditionsOfFilter(j)) = 1
                               /\ LET condition ==
                                          qb.conditions[CHOOSE c \in ConditionsOfFilter(j) : TRUE]
                                  IN  /\ PlaceholderCount(condition) = N
                                      /\ EachPlaceholderCast(condition,
                                             TypeCast(qb.dialect, EffectiveFieldType(b, filters[j])))
            /\ BindsPerPlaceholder

----------------------------------------------------------------------------
(* C12: Between *)

\* the number of arguments bound before the condition at position c was built
ArgumentsBefore(c) ==
    Len(last.before.arguments)
        + SumOver([d \in 1..Len(qb.conditions) |->
                       IF d \in NewConditions /\ d < c
                       THEN PlaceholderCount(qb.conditions[d]) ELSE 0], 1)

\* a Between filter on a column that b accepts, with fewer than two values
ShortBetween(b, filter) ==
    /\ filter.operator = "Between"
    /\ filter.value.variant = "Array"
    /\ Len(filter.value.arr) < 2
    /\ filter.field \notin DOMAIN b.computed_properties
    /\ IsColumnSafe(b, filter.field)

RECURSIVE WithoutShortBetween(_, _)
WithoutShortBetween(b, filters) ==
    IF filters = <<>> THEN <<>>
    ELSE (IF ShortBetween(b, Head(filters)) THEN <<>> ELSE <<Head(filters)>>)
             \o WithoutShortBetween(b, Tail(filters))

\* C12: a Between filter on a safe column with exactly two array elements emits
\* one condition col BETWEEN p1<cast> AND p2<cast>, whose two placeholders are the
\* next two of the statement, and binds the two elements in array order; a
\* Between filter with fewer than two elements emits no condition and binds no
\* argument, and the call leaves the conditions and arguments it would leave had
\* that filter not been given, so the numbering of later filters is unaffected.
C12_BetweenTwoOrNothing ==
    last.method = "with_filters" =>
        LET b == last.before
            filters == last.params.filters
        IN  /\ \A j \in 1..Len(filters) :
                  (filters[j].operator = "Between"
                       /\ filters[j].value.variant = "Array"
                       /\ filters[j].field \notin DOMAIN b.computed_properties
                       /\ IsColumnSafe(b, filters[j].field)) =>
                      IF Len(filters[j].value.arr) = 2
                      THEN /\ Cardinality(ConditionsOfFilter(j)) = 1
                           /\ LET c == CHOOSE d \in ConditionsOfFilter(j) : TRUE
                                  n == ArgumentsBefore(c)
                                  type_cast == TypeCast(qb.dialect,
                                                        EffectiveFieldType(b, filters[j]))
                              IN  /\ qb.conditions[c]
                                         = FormatColumn(b, filters[j].field)
                                             \o <<" BETWEEN ", Placeholder(qb.dialect, n + 1)>>
                                             \o type_cast
                                             \o <<" AND ", Placeholder(qb.dialect, n + 2)>>
                                             \o type_cast
                                  /\ Len(qb.arguments) >= n + 2
                                  /\ qb.arguments[n + 1]
                                         = ToBindableString(filters[j].value.arr[1])
                                  /\ qb.arguments[n + 2]
                                         = ToBindableString(filters[j].value.arr[2])
                      ELSE Len(filters[j].value.arr) < 2 => ConditionsOfFilter(j) = {}
            /\ BindsPerPlaceholder
            /\ LET expected == WithFilters(b, WithFiltersParams(WithoutShortBetween(b, filters)))
               IN  /\ qb.conditions = expected.conditions
                   /\ qb.arguments = expected.arguments

\* a call whose first filter is a Between with one value and whose second is a
\* Between with two: one condition, with the first two placeholders
C12_Witness ==
    /\ last.method = "with_filters"
    /\ Len(last.params.filters) = 2
    /\ ShortBetween(last.before, last.params.filters[1])
    /\ last.params.filters[2].operator = "Between"
    /\ Len(last.params.filters[2].value.arr) = 2
    /\ IsColumnSafe(last.before, last.params.filters[2].field)
    /\ Cardinality(NewConditions) = 1
    /\ Len(qb.arguments) = Len(last.before.arguments) + 2

----------------------------------------------------------------------------
(* C13: Like and ILike *)

\* the condition compares the lowercased column with the lowercased pattern
HasLowerForm(condition) ==
    /\ Len(condition) >= 1
    /\ condition[1] = "LOWER("
    /\ \E k \in 1..Len(condition) : condition[k] = ") LIKE LOWER("

\* the condition uses the ILIKE operator
HasILike(condition) ==
    \E k \in 1..Len(condition) : condition[k] \in {" ILIKE ", "::text ILIKE "}

\* ILIKE is an operator of Postgres and not of SQLite
NativeILike(dialect) == dialect = "postgres"

\* C13: for a Like or ILike filter on a safe column the emitted condition is
\* case-folding: it has the form LOWER(col) LIKE LOWER(placeholder), or it uses
\* ILIKE where the dialect has that operator; this holds on both dialects, and
\* the condition holds exactly one placeholder, for one bound argument.
C13_LikeIsCaseFolding ==
    last.method = "with_filters" =>
        LET b == last.before
            filters == last.params.filters
        IN  /\ \A j \in 1..Len(filters) :
                  (filters[j].operator \in {"Like", "ILike"}
                       /\ IsColumnSafe(b, filters[j].field)) =>
                      /\ Cardinality(ConditionsOfFilter(j)) = 1
                      /\ LET condition ==
                                 qb.conditions[CHOOSE c \in ConditionsOfFilter(j) : TRUE]
                         IN  /\ \/ HasLowerForm(condition)
                                \/ HasILike(condition) /\ NativeILike(qb.dialect)
                             /\ PlaceholderCount(condition) = 1
            /\ BindsPerPlaceholder

----------------------------------------------------------------------------
(* C14: the active joins *)

\* the joins declared by the computed properties that contributed a condition to
\* the last call, in the order the call processed them: a search column when the
\* search condition was appended, a filter field when its filter emitted a condition
ContributedJoins ==
    LET b == last.before
        Joins(column, contributed) ==
            IF column \in DOMAIN b.computed_properties /\ contributed
            THEN b.computed_properties[column].joins ELSE <<>>
    IN  IF last.method = "with_search" /\ last.params.search.search_columns.some
        THEN LET columns == last.params.search.search_columns.value
             IN  Flatten([i \in 1..Len(columns) |-> Joins(columns[i], NewConditions # {})])
        ELSE IF last.method = "with_filters"
        THEN LET filters == last.params.filters
             IN  Flatten([j \in 1..Len(filters) |->
                             Joins(filters[j].field, ConditionsOfFilter(j) # {})])
        ELSE <<>>

\* C14: after any sequence of with_search and with_filters calls the active joins
\* hold no clause twice, are in the order of first activation, and hold a clause
\* only if a computed property declaring it contributed a condition: each call
\* appends to the joins it found exactly the clauses, not yet present, of the
\* properties that contributed a condition to it, and no other call adds one.
C14_JoinsOnlyOfUsedProperties ==
    /\ Build(qb).joins = Dedup(last.before.active_joins \o ContributedJoins)
    /\ \A i, k \in 1..Len(qb.active_joins) : qb.active_joins[i] = qb.active_joins[k] => i = k

----------------------------------------------------------------------------
(* C15: when with_search appends its condition *)

\* the positions of the search columns that the column rule accepts: a computed
\* property, or a column that passes is_column_safe
AcceptedColumns(b, columns) == {i \in 1..Len(columns) : ~ Unsafe(b, columns[i])}

CountPieces(pieces, piece) == Cardinality({k \in 1..Len(pieces) : pieces[k] = piece})

\* C15: with_search appends no condition and binds no argument when the search
\* term is absent, empty or whitespace-only, when the column list is absent or
\* empty, or when none of the listed columns is accepted; otherwise it appends
\* exactly one condition, in parentheses, whose terms, one per accepted column,
\* are joined with OR.
C15_SearchAppendsOneOrNothing ==
    last.method = "with_search" =>
        LET b == last.before
            search == last.params.search
            accepted == IF search.search_columns.some
                        THEN AcceptedColumns(b, search.search_columns.value) ELSE {}
        IN  IF IsBlank(search.search) \/ accepted = {}
            THEN /\ qb.conditions = b.conditions
                 /\ qb.arguments = b.arguments
            ELSE /\ Len(qb.conditions) = Len(b.conditions) + 1
                 /\ SubSeq(qb.conditions, 1, Len(b.conditions)) = b.conditions
                 /\ LET condition == qb.conditions[Len(qb.conditions)]
                    IN  /\ Len(condition) >= 2
                        /\ condition[1] = "("
                        /\ condition[Len(condition)] = ")"
                        /\ CountPieces(condition, " OR ") = Cardinality(accepted) - 1

----------------------------------------------------------------------------
(* C16: the page query *)

EndsWith(s, suffix) ==
    /\ Len(suffix) <= Len(s)
    /\ SubSeq(s, Len(s) - Len(suffix) + 1, Len(s)) = suffix

\* ORDER BY <quoted sort column> ASC|DESC LIMIT page_size OFFSET (page-1)*page_size
PageQueryTail(dialect, params) ==
    <<" ORDER BY ">> \o QuoteIdentifier(dialect, params.sort.sort_column)
        \o <<" ", IF params.sort.sort_direction = "Ascending" THEN "ASC" ELSE "DESC">>
        \o <<" LIMIT ">> \o IntToString(params.pagination.page_size)
        \o <<" OFFSET ">>
        \o IntToString((params.pagination.page - 1) * params.pagination.page_size)

\* C16: the page query of fetch_paginated ends with ORDER BY, the quoted sort
\* column and ASC for Ascending, DESC for Descending, followed by LIMIT page_size
\* OFFSET (page - 1) * page_size; and the page query is executed with totals
\* enabled and with totals disabled (once the count query, if any, has succeeded).
C16_PageQueryTail ==
    /\ \A i \in 1..Len(fp.executed) :
          fp.executed[i].kind = "page" =>
              EndsWith(fp.executed[i].sql, PageQueryTail(fp.dialect, fp.params))
    /\ (fp.pc \in {"page", "returned"} /\ ~ CountFailed) =>
          /\ fp.executed # <<>>
          /\ fp.executed[Len(fp.executed)].kind = "page"
          /\ fp.executed[Len(fp.executed)].sql = fp.main_sql

----------------------------------------------------------------------------
(* C17: with_pagination clamps *)

----------------------------------------------------------------------------
(* C18: one connection at a time *)

Completed(c) == calls[c].pc \in {"returned", "panicked"}

\* C18: a fetch_paginated call holds at most one pool connection at any time, the
\* count query having given its connection back before the page query asks for
\* one; so on a pool of size 1 every call that was started, several running
\* concurrently included, eventually completes.
C18_OneConnectionAtATime ==
    /\ [](\A c \in 1..MaxCalls :
              /\ calls[c].held \in {0, 1}
              /\ calls[c].pc \in {"count_acquire", "page_acquire"} => calls[c].held = 0)
    /\ [](Idle >= 0)
    /\ \A c \in 1..MaxCalls : (calls[c].pc # "new") ~> Completed(c)

\* on the pool of size 1: one call runs its page query on the only connection,
\* after its count query, while the two others wait for a connection
C18_Witness ==
    /\ PoolSize = 1
    /\ Idle = 0
    /\ \E a \in 1..MaxCalls :
          /\ calls[a].pc = "page_query"
          /\ calls[a].held = 1
          /\ \A c \in (1..MaxCalls) \ {a} : calls[c].pc \in {"count_acquire", "page_acquire"}

----------------------------------------------------------------------------
(* C19: identifiers are quoted whole *)

RECURSIVE ClosingQuote(_, _)
\* the position of the double quote that closes the identifier whose text starts
\* at position k: a doubled double quote is part of the text
ClosingQuote(pieces, k) ==
    IF k > Len(pieces) THEN Len(pieces)
    ELSE IF pieces[k] = "\""
    THEN (IF k + 1 <= Len(pieces) /\ pieces[k + 1] = "\""
          THEN ClosingQuote(pieces, k + 2) ELSE k)
    ELSE ClosingQuote(pieces, k + 1)

RECURSIVE QuotedIdentifiers(_, _)
\* the quoted identifiers of a piece of SQL, from position i on
QuotedIdentifiers(pieces, i) ==
    IF i > Len(pieces) THEN {}
    ELSE IF pieces[i] # "\"" THEN QuotedIdentifiers(pieces, i + 1)
    ELSE LET j == ClosingQuote(pieces, i + 1)
         IN  {SubSeq(pieces, i, j)} \cup QuotedIdentifiers(pieces, j + 1)

\* the names the parameters give: filter fields, search columns, the sort column;
\* and the table prefix
RequestedNames(params) ==
    {params.filters[j].field : j \in 1..Len(params.filters)}
        \cup (IF params.search.search_columns.some
              THEN {params.search.search_columns.value[i] :
                        i \in 1..Len(params.search.search_columns.value)}
              ELSE {})
        \cup {params.sort.sort_column, PrefixBaseQuery}

\* C19: every column identifier in the emitted SQL (filter columns, search
\* columns, the table prefix, the ORDER BY sort column) is exactly the dialect's
\* quote_identifier applied to a whole name, a name that holds a dot included;
\* and the sort column is in the statement in that form.
C19_IdentifiersQuotedWhole ==
    SqlBuilt =>
        LET from == PositionOf(fp.main_sql, " SELECT * FROM base_query")
            order == PositionOf(fp.main_sql, " ORDER BY ")
            whole == {QuoteIdentifier(fp.dialect, name) : name \in RequestedNames(fp.params)}
        IN  /\ QuotedIdentifiers(fp.main_sql, from) \subseteq whole
            /\ QuoteIdentifier(fp.dialect, fp.params.sort.sort_column)
                   \in QuotedIdentifiers(fp.main_sql, order)
            /\ fp.count_sql.some =>
                   QuotedIdentifiers(fp.count_sql.value,
                                     PositionOf(fp.count_sql.value,
                                                " SELECT COUNT(*) FROM base_query"))
                       \subseteq whole

----------------------------------------------------------------------------
(* C20: the sort column *)

\* the column-safety check of the dialect, validation and protection enabled: the
\* name is a column of the model and is not on the denylist (fetch_paginated
\* registers no computed property)
PassesColumnSafety(dialect, column) == IsColumnSafe(NewQueryBuilder(dialect), column)

\* C20: column protection covers the sort column: no statement of fetch_paginated
\* has an ORDER BY over a sort column that fails the column-safety check.
C20_SortColumnIsSafe ==
    \A i \in 1..Len(fp.executed) :
        QuotedIdentifiers(fp.executed[i].sql, PositionOf(fp.executed[i].sql, " ORDER BY ")) # {}
            => PassesColumnSafety(fp.dialect, fp.params.sort.sort_column)

----------------------------------------------------------------------------
(* C21: the statements of one call *)

ExecutedKinds == [i \in 1..Len(fp.executed) |-> fp.executed[i].kind]

\* the statements of a call that runs to its end without an error
AllStatements == IF fp.totals_count_enabled THEN <<"count", "page">> ELSE <<"page">>

----------------------------------------------------------------------------
(* C22: IsNull and IsNotNull *)

\* the text that stands for the field in a condition of the builder b
TableColumnOf(b, field) ==
    IF field \in DOMAIN b.computed_properties
    THEN b.computed_properties[field].expression
    ELSE FormatColumn(b, field)

\* an IsNull or IsNotNull filter on a column that b accepts
NullCheck(b, filter) ==
    /\ filter.operator \in {"IsNull", "IsNotNull"}
    /\ IsColumnSafe(b, filter.field)

RECURSIVE WithoutNullChecks(_, _)
WithoutNullChecks(b, filters) ==
    IF filters = <<>> THEN <<>>
    ELSE (IF NullCheck(b, Head(filters)) THEN <<>> ELSE <<Head(filters)>>)
             \o WithoutNullChecks(b, Tail(filters))

\* the conditions the call added that do not come from a null check
ConditionsOfOtherFilters ==
    LET added == [k \in 1..Cardinality(NewConditions) |-> Len(last.before.conditions) + k]
        kept == SelectSeq(added,
                          LAMBDA c : ~ NullCheck(last.before,
                                                 last.params.filters[qb.cond_src[c].index]))
    IN  [k \in 1..Len(kept) |-> qb.conditions[kept[k]]]

\* C22: an IsNull or IsNotNull filter on a safe column appends exactly one
\* condition, col IS NULL or col IS NOT NULL, that holds no placeholder, and
\* binds no argument, whatever the filter's value; the other filters of the call
\* emit the conditions and bind the arguments they would have had the null
\* checks not been given, so the placeholder of the next filter is the same.
C22_NullChecksBindNothing ==
    last.method = "with_filters" =>
        LET b == last.before
            filters == last.params.filters
        IN  /\ \A j \in 1..Len(filters) :
                  NullCheck(b, filters[j]) =>
                      /\ Cardinality(ConditionsOfFilter(j)) = 1
                      /\ LET c == CHOOSE d \in ConditionsOfFilter(j) : TRUE
                         IN  /\ PlaceholderCount(qb.conditions[c]) = 0
                             /\ qb.conditions[c]
                                    = TableColumnOf(b, filters[j].field)
                                        \o (IF filters[j].operator = "IsNull"
                                            THEN <<" IS NULL">> ELSE <<" IS NOT NULL">>)
                             /\ ArgumentsBefore(c + 1) = ArgumentsBefore(c)
            /\ BindsPerPlaceholder
            /\ LET expected == WithFilters(b, WithFiltersParams(WithoutNullChecks(b, filters)))
               IN  /\ qb.arguments = expected.arguments
                   /\ ConditionsOfOtherFilters
                          = SubSeq(expected.conditions, Len(b.conditions) + 1,
                                   Len(expected.conditions))

\* a call whose first filter is a null check with a value that is not null and
\* whose second filter binds an argument: two conditions, one argument, and the
\* second filter has the first placeholder of the call
C22_Witness ==
    /\ last.method = "with_filters"
    /\ Len(last.params.filters) = 2
    /\ NullCheck(last.before, last.params.filters[1])
    /\ last.params.filters[1].value.variant # "Null"
    /\ last.params.filters[2].operator = "Eq"
    /\ Cardinality(NewConditions) = 2
    /\ Len(qb.arguments) = Len(last.before.arguments) + 1
    /\ PlaceholdersOf(qb.conditions[Len(qb.conditions)])
           = <<Placeholder(qb.dialect, Len(last.before.arguments) + 1)>>

----------------------------------------------------------------------------
(* C23: the text cast of Like and ILike *)

\* the field types whose columns a pattern match casts to text
CastToText == {"Int", "Float", "Bool", "Uuid", "DateTime", "Date", "Time"}

\* a Like or ILike filter on a column that b accepts
PatternFilter(b, filter) ==
    /\ filter.operator \in {"Like", "ILike"}
    /\ IsColumnSafe(b, filter.field)

\* C23: a Like or ILike filter on a safe column emits one condition with one
\* placeholder, the next of the statement; the column or computed expression is
\* followed by ::text before the pattern operator when the filter's effective
\* field type is Int, Float, Bool, Uuid, DateTime, Date or Time, and by the
\* operator alone when it is String; nothing follows the placeholder.
C23_PatternCastsColumnOnly ==
    last.method = "with_filters" =>
        LET b == last.before
            filters == last.params.filters
        IN  \A j \in 1..Len(filters) :
                PatternFilter(b, filters[j]) =>
                    /\ Cardinality(ConditionsOfFilter(j)) = 1
                    /\ LET c == CHOOSE d \in ConditionsOfFilter(j) : TRUE
                           condition == qb.conditions[c]
                           column == TableColumnOf(b, filters[j].field)
                           keyword == IF filters[j].operator = "Like" THEN "LIKE" ELSE "ILIKE"
                           placeholder == Placeholder(qb.dialect, ArgumentsBefore(c) + 1)
                           field_type == EffectiveFieldType(b, filters[j])
                       IN  /\ field_type \in CastToText =>
                                 condition = column \o <<"::text " \o keyword \o " ", placeholder>>
                           /\ field_type = "String" =>
                                 condition = column \o <<" " \o keyword \o " ", placeholder>>
                           /\ PlaceholdersOf(condition) = <<placeholder>>
                           /\ condition[Len(condition)] = placeholder

\* a call with a Like whose effective type is Uuid (the optional column with a
\* Uuid value: cast) followed by an ILike on a String column (no cast)
C23_Witness ==
    /\ last.method = "with_filters"
    /\ Len(last.params.filters) = 2
    /\ PatternFilter(last.before, last.params.filters[1])
    /\ PatternFilter(last.before, last.params.filters[2])
    /\ EffectiveFieldType(last.before, last.params.filters[1]) = "Uuid"
    /\ EffectiveFieldType(last.before, last.params.filters[2]) = "String"
    /\ last.params.filters[2].operator = "ILike"
    /\ Cardinality(NewConditions) = 2
    /\ CountPieces(qb.conditions[Len(qb.conditions) - 1], "::text LIKE ") = 1
    /\ CountPieces(qb.conditions[Len(qb.conditions)], " ILIKE ") = 1

----------------------------------------------------------------------------
(* C24: which type gives the cast *)

\* the cast suffixes of the dialects
CastTokens ==
    {"::bigint", "::float8", "::boolean", "::uuid", "::timestamptz", "::date", "::time"}

\* the field type that the variant of a filter value stands for: its own, that
\* of the first element for an array, Unknown for Null and for an empty array
VariantType(value) ==
    CASE value.variant = "Null" -> "Unknown"
      [] value.variant = "Array" ->
            IF value.arr = <<>> \/ value.arr[1].variant \in {"Null", "Array"} THEN "Unknown"
            ELSE value.arr[1].variant
      [] OTHER -> value.variant

\* the type that decides the cast of a filter on a column of the model or on a
\* column absent from it
DecidingType(b, filter) ==
    IF filter.field \in DOMAIN b.field_meta /\ b.field_meta[filter.field] # "Unknown"
    THEN b.field_meta[filter.field]
    ELSE VariantType(filter.value)

HasTextCast(condition) ==
    \E k \in 1..Len(condition) : condition[k] \in {"::text LIKE ", "::text ILIKE "}

\* C24: for a filter on a safe column that is not a computed property, the cast
\* is that of the column's inferred type whenever that type is not Unknown,
\* whatever the variant of the value; for a column of type Unknown (an optional
\* field, or a column absent from the model) it is that of the value's variant,
\* the first element for an array, and none for Null or an empty array.  In each
\* condition of the filter every placeholder is followed by the dialect's cast
\* for that type and there is no other cast suffix; a Like or ILike casts the
\* column to text exactly when that type is neither String nor Unknown.
C24_CastFromColumnThenValue ==
    last.method = "with_filters" =>
        LET b == last.before
            filters == last.params.filters
        IN  \A j \in 1..Len(filters) :
                (filters[j].field \notin DOMAIN b.computed_properties
                     /\ IsColumnSafe(b, filters[j].field)) =>
                    \A c \in ConditionsOfFilter(j) :
                        LET condition == qb.conditions[c]
                            field_type == DecidingType(b, filters[j])
                            type_cast == TypeCast(qb.dialect, field_type)
                            casts == SelectSeq(condition, LAMBDA piece : piece \in CastTokens)
                        IN  IF filters[j].operator \in {"Like", "ILike"}
                            THEN /\ casts = <<>>
                                 /\ HasTextCast(condition) <=> field_type \in CastToText
                            ELSE /\ EachPlaceholderCast(condition, type_cast)
                                 /\ Len(casts) = PlaceholderCount(condition) * Len(type_cast)
                                 /\ ~ HasTextCast(condition)

\* on Postgres, a call with a comparison on the String column whose value is an
\* Int (no cast) and a comparison on the optional column whose value is an array
\* that begins with a Bool (cast to boolean)
C24_Witness ==
    /\ last.method = "with_filters"
    /\ qb.dialect = "postgres"
    /\ Len(last.params.filters) = 2
    /\ last.params.filters[1].field = ColName
    /\ last.params.filters[1].value.variant = "Int"
    /\ last.params.filters[2].field = ColOpt
    /\ last.params.filters[2].value.variant = "Array"
    /\ Cardinality(NewConditions) = 2
    /\ CountPieces(Flatten([k \in 1..Len(qb.conditions) |-> qb.conditions[k]]), "::boolean") = 1
    /\ \A token \in CastTokens \ {"::boolean"} :
           CountPieces(Flatten([k \in 1..Len(qb.conditions) |-> qb.conditions[k]]), token) = 0

----------------------------------------------------------------------------
(* C25: computed properties *)

\* sub occurs in seq as a run of consecutive pieces
HasSubSeq(seq, sub) ==
    \E k \in 0..(Len(seq) - Len(sub)) : SubSeq(seq, k + 1, k + Len(sub)) = sub

\* every clause of joins is among the active joins of the builder
JoinsActive(joins) ==
    \A i \in 1..Len(joins) : \E k \in 1..Len(qb.active_joins) : qb.active_joins[k] = joins[i]

\* the builder b with no computed property registered
WithoutProperties(b) == [b EXCEPT !.computed_properties = EmptyMap]

\* the last call was given the name of a registered computed property
ReferencesProperty ==
    \/ /\ last.method = "with_filters"
       /\ \E j \in 1..Len(last.params.filters) :
              last.params.filters[j].field \in DOMAIN last.before.computed_properties
    \/ /\ last.method = "with_search"
       /\ last.params.search.search_columns.some
       /\ \E i \in 1..Len(last.params.search.search_columns.value) :
              last.params.search.search_columns.value[i]
                  \in DOMAIN last.before.computed_properties

\* C25: a filter whose field is a registered computed property is never skipped
\* for its name (on the denylist, absent from the model): its joins are active
\* after the call, and the condition it emits begins with the property's
\* expression as written, where a column would be quoted and prefixed, and takes
\* its cast from the property's declared type (from the value only if that type
\* is Unknown), not from the model's field metadata.  A search column that is a
\* registered computed property contributes the term LOWER(expr) LIKE LOWER(p)
\* for a String property and (expr)::text LIKE p otherwise whenever the search
\* condition is emitted, and its joins are then active.  Registering a property
\* changes neither conditions, arguments nor joins, and a call that names no
\* registered property leaves the conditions, arguments and joins it would
\* leave with no property registered.
C25_ComputedPropertyReplacesColumn ==
    LET b == last.before
        props == b.computed_properties
    IN
    /\ last.method = "with_filters" =>
          \A j \in 1..Len(last.params.filters) :
              LET filter == last.params.filters[j] IN
              filter.field \in DOMAIN props =>
                  LET prop == props[filter.field]
                      field_type == IF prop.field_type # "Unknown" THEN prop.field_type
                                    ELSE VariantType(filter.value)
                      type_cast == TypeCast(qb.dialect, field_type)
                  IN  /\ JoinsActive(prop.joins)
                      /\ (filter.operator = "Between" /\ Len(filter.value.arr) < 2)
                             \/ Cardinality(ConditionsOfFilter(j)) = 1
                      /\ \A c \in ConditionsOfFilter(j) :
                             LET condition == qb.conditions[c]
                                 rest == SubSeq(condition, Len(prop.expression) + 1,
                                                Len(condition))
                                 casts == SelectSeq(condition, LAMBDA piece : piece \in CastTokens)
                             IN  /\ SubSeq(condition, 1, Len(prop.expression)) = prop.expression
                                 /\ rest # <<>>
                                 /\ Len(Head(rest)) > 1
                                 /\ IF filter.operator \in {"Like", "ILike"}
                                    THEN /\ casts = <<>>
                                         /\ HasTextCast(condition) <=> field_type \in CastToText
                                    ELSE /\ EachPlaceholderCast(condition, type_cast)
                                         /\ Len(casts)
                                                = PlaceholderCount(condition) * Len(type_cast)
    /\ (last.method = "with_search" /\ NewConditions # {}) =>
          LET columns == last.params.search.search_columns.value
              condition == qb.conditions[Len(qb.conditions)]
              placeholder == Placeholder(qb.dialect, Len(b.arguments) + 1)
          IN  \A i \in 1..Len(columns) :
                  columns[i] \in DOMAIN props =>
                      LET prop == props[columns[i]] IN
                      /\ JoinsActive(prop.joins)
                      /\ HasSubSeq(condition,
                                   IF prop.field_type = "String"
                                   THEN <<"LOWER(">> \o prop.expression
                                            \o <<") LIKE LOWER(", placeholder, ")">>
                                   ELSE <<"(">> \o prop.expression
                                            \o <<")::text LIKE ", placeholder>>)
    /\ last.method = "with_computed_property" =>
          /\ qb.conditions = b.conditions
          /\ qb.arguments = b.arguments
          /\ qb.active_joins = b.active_joins
    /\ (last.method \in {"with_filters", "with_search"} /\ ~ ReferencesProperty) =>
          LET expected == IF last.method = "with_filters"
                          THEN WithFilters(WithoutProperties(b), last.params)
                          ELSE WithSearch(WithoutProperties(b), last.params)
          IN  /\ qb.conditions = expected.conditions
              /\ qb.arguments = expected.arguments
              /\ qb.active_joins = expected.active_joins

\* on Postgres, a filter on the registered property oid, a name of the model and
\* of the denylist, whose String value is cast by the declared type Int
C25_Witness ==
    /\ last.method = "with_filters"
    /\ qb.dialect = "postgres"
    /\ Len(last.params.filters) = 1
    /\ last.params.filters[1].field = ColOid
    /\ ColOid \in DOMAIN last.before.computed_properties
    /\ ~ ProtectionIsSafe("postgres", ColOid)
    /\ last.before.protection_enabled
    /\ last.params.filters[1].value.variant = "String"
    /\ Cardinality(NewConditions) = 1
    /\ qb.conditions[Len(qb.conditions)]
           = last.before.computed_properties[ColOid].expression
                 \o <<" = ", Placeholder("postgres", Len(last.before.arguments) + 1), "::bigint">>

----------------------------------------------------------------------------
(* C26: the columns that with_search searches *)

\* the number of LIKE terms of a search condition
TermCount(condition) ==
    Cardinality({k \in 1..Len(condition) : condition[k] \in {"::text LIKE ", ")::text LIKE ", ") LIKE LOWER("}})

\* C26: every column that contributes a LIKE term to the search condition is one
\* of the requested search columns and is a registered computed property or
\* passes is_column_safe, also when a mapper is registered for it: the condition
\* has at most one term per accepted column, and the call leaves the conditions
\* and arguments of the same call without the rejected columns.
C26_SearchOnlySafeColumns ==
    last.method = "with_search" =>
        LET b == last.before
            search == last.params.search
            columns == IF search.search_columns.some THEN search.search_columns.value ELSE <<>>
            expected == WithSearch(b, [last.params EXCEPT
                                          !.search.search_columns =
                                              IF search.search_columns.some
                                              THEN Some(KeepColumns(b, columns)) ELSE None])
        IN  /\ \A c \in NewConditions :
                  TermCount(qb.conditions[c]) <= Cardinality(AcceptedColumns(b, columns))
            /\ qb.conditions = expected.conditions
            /\ qb.arguments = expected.arguments

----------------------------------------------------------------------------
(* C27: the protection and validation toggles *)

\* the flag that each toggle writes, and the value it writes
ToggleFlag ==
    [ disable_protection |-> [flag |-> "protection_enabled", value |-> FALSE],
      enable_protection |-> [flag |-> "protection_enabled", value |-> TRUE],
      disable_column_validation |-> [flag |-> "column_validation_enabled", value |-> FALSE],
      enable_column_validation |-> [flag |-> "column_validation_enabled", value |-> TRUE] ]

\* the builder after each of the four toggles
Toggled(b) ==
    { DisableProtection(b), EnableProtection(b),
      DisableColumnValidation(b), EnableColumnValidation(b) }

\* C27: each of disable_protection, enable_protection, disable_column_validation
\* and enable_column_validation writes its own flag and leaves every other field
\* of the builder, the conditions, arguments and active joins among them, as it
\* was.  So a toggle after with_search or with_filters builds the result that
\* the builder had without it, and what a call accepts is decided by the flags
\* the builder had when the call was made: a filter emits a condition only if
\* its field passed is_column_safe then, and the search condition has one term
\* for each requested column that then was a computed property, had a mapper or
\* passed is_column_safe.
C27_TogglesChangeOnlyTheirFlag ==
    /\ last.method \in DOMAIN ToggleFlag =>
          /\ qb[ToggleFlag[last.method].flag] = ToggleFlag[last.method].value
          /\ qb.conditions = last.before.conditions
          /\ qb.arguments = last.before.arguments
          /\ qb.active_joins = last.before.active_joins
          /\ [qb EXCEPT ![ToggleFlag[last.method].flag] = TRUE]
                 = [last.before EXCEPT ![ToggleFlag[last.method].flag] = TRUE]
    /\ last.method \in {"with_search", "with_filters"} =>
          \A b \in Toggled(qb) : Build(b) = Build(qb)
    /\ last.method = "with_filters" =>
          \A j \in 1..Len(last.params.filters) :
              ConditionsOfFilter(j) # {} => IsColumnSafe(last.before, last.params.filters[j].field)
    /\ last.method = "with_search" =>
          LET b == last.before
              columns == IF last.params.search.search_columns.some
                         THEN last.params.search.search_columns.value ELSE <<>>
              taken == {i \in 1..Len(columns) :
                            columns[i] \in DOMAIN b.mappers \/ IsColumnSafe(b, columns[i])}
          IN  \A c \in NewConditions : TermCount(qb.conditions[c]) = Cardinality(taken)

\* disable_protection called, as in build_query_with_disabled_protection, on a
\* protected builder that already holds a condition
C27_Witness ==
    /\ last.method = "disable_protection"
    /\ last.before.protection_enabled
    /\ ~ qb.protection_enabled
    /\ qb.column_validation_enabled
    /\ Len(qb.conditions) = 1
    /\ Len(qb.arguments) = 1

\* a with_filters made after disable_protection that accepts a filter which the
\* same call with protection enabled rejects
C27_WitnessToggleBefore ==
    /\ last.method = "with_filters"
    /\ ~ last.before.protection_enabled
    /\ last.before.computed_properties = EmptyMap
    /\ Cardinality(NewConditions) = 1
    /\ WithFilters(EnableProtection(last.before), last.params).conditions
           = last.before.conditions

----------------------------------------------------------------------------
(* C28: the offset of the pages that with_pagination can store *)

\* C28: for the page and page_size that QueryParamsBuilder holds, whatever
\* with_pagination was given, build_limit_offset_clause computes its offset
\* without overflow, in a build that checks overflow and in one that does not:
\* the offset is (page - 1) * page_size exactly, it is not negative, and the
\* clause reads LIMIT page_size OFFSET (page - 1) * page_size.
C28_OffsetExact ==
    LET params == ParamsBuild(pb.builder)
        exact == (params.pagination.page - 1) * params.pagination.page_size
    IN  \A overflow_checks \in BOOLEAN :
            LET offset == LimitOffset(params, overflow_checks)
            IN  /\ ~ offset.panic
                /\ offset.value = exact
                /\ offset.value >= 0
                /\ BuildLimitOffsetClause(params, offset.value)
                       = <<" LIMIT ">> \o IntToString(params.pagination.page_size)
                             \o <<" OFFSET ">> \o IntToString(exact)

----------------------------------------------------------------------------
(* C29: parameters built without QueryParamsBuilder *)

\* the text of the page query from its LIMIT on
LimitOffsetPart(sql) == SubSeq(sql, PositionOf(sql, " LIMIT "), Len(sql))

\* C29: with totals enabled, whatever pagination the parameters carry (page_size
\* 0 and page below 1 included), fetch_paginated does not divide by zero when it
\* computes total_pages from the count, and the page query it builds has no
\* negative LIMIT and no negative OFFSET.
C29_NoDivisionByZeroNoNegativeClause ==
    fp.totals_count_enabled =>
        /\ (CountAnswered /\ fp.params.pagination.page_size = 0) => fp.pc # "panicked"
        /\ fp.pc \in {"count", "page", "returned"} =>
              /\ PositionOf(fp.main_sql, " LIMIT ") <= Len(fp.main_sql)
              /\ CountPieces(LimitOffsetPart(fp.main_sql), "-") = 0

----------------------------------------------------------------------------
(* C30: SQLite conditions *)

\* the pieces of a condition that only Postgres parses: a :: cast, the ILIKE
\* keyword
PostgresOnly ==
    CastTokens \cup {"::text LIKE ", ")::text LIKE ", "::text ILIKE ", " ILIKE "}

\* C30: on the SQLite dialect no condition that with_search or with_filters
\* emitted holds a :: cast (::text on a searched or pattern-matched column
\* included) or the ILIKE keyword, whatever the operator and the field type.
C30_SqliteHasNoPostgresSyntax ==
    qb.dialect = "sqlite" =>
        \A c \in 1..Len(qb.conditions) :
            qb.cond_src[c].kind \in {"search", "filter"} =>
                \A k \in 1..Len(qb.conditions[c]) : qb.conditions[c][k] \notin PostgresOnly

====
